---- MODULE Spec2Model ----
(***************************************************************************)
(* Model of @tradle/lambda-plugins: the plugin installation state machine  *)
(* (assertInstalled / loadPlugins in src/index.ts) and the validator of    *)
(* plugin definitions (validatePluginDefinition(s)).                        *)
(*                                                                         *)
(* Strings are sequences of one-character strings, so that the regular     *)
(* expressions of the validator are computed and not assumed.  A JS object *)
(* with string values is the sequence of its <<key, value>> entries in     *)
(* property order.  Time is counted in whole minutes.                      *)
(***************************************************************************)
EXTENDS Integers, Sequences, FiniteSets, TLC

(***************************************************************************)
(* Characters                                                              *)
(***************************************************************************)
Digits == {"0", "1", "2", "3", "4", "5", "6", "7", "8", "9"}
LowerLetters == {"a", "b", "c", "d", "e", "f", "g", "h", "i", "j", "k", "l", "m",
                 "n", "o", "p", "q", "r", "s", "t", "u", "v", "w", "x", "y", "z"}
UpperLetters == {"A", "B", "C", "D", "E", "F", "G", "H", "I", "J", "K", "L", "M",
                 "N", "O", "P", "Q", "R", "S", "T", "U", "V", "W", "X", "Y", "Z"}
HexLetters == {"a", "b", "c", "d", "e", "f", "A", "B", "C", "D", "E", "F"}
Spaces == {" ", "\t", "\n"}

\* The characters used by the model, in ascending UTF-16 code unit order.
AsciiOrder == <<"\t", "\n", " ", "\"", "#", "*", "+", "-", ".", "/",
                "0", "1", "2", "3", "4", "5", "6", "7", "8", "9",
                ":", "<", "=", ">", "@",
                "A", "B", "C", "D", "E", "F", "G", "H", "I", "J", "K", "L", "M",
                "N", "O", "P", "Q", "R", "S", "T", "U", "V", "W", "X", "Y", "Z",
                "^",
                "a", "b", "c", "d", "e", "f", "g", "h", "i", "j", "k", "l", "m",
                "n", "o", "p", "q", "r", "s", "t", "u", "v", "w", "x", "y", "z",
                "~">>

CharCode(c) == CHOOSE i \in 1..Len(AsciiOrder) : AsciiOrder[i] = c

\* a < b as JS compares strings: by code unit, a proper prefix is smaller.
RECURSIVE StrLess(_, _)
StrLess(a, b) ==
    IF b = <<>> THEN FALSE
    ELSE IF a = <<>> THEN TRUE
    ELSE IF Head(a) = Head(b) THEN StrLess(Tail(a), Tail(b))
    ELSE CharCode(Head(a)) < CharCode(Head(b))

StartsWith(s, pre) == Len(s) >= Len(pre) /\ SubSeq(s, 1, Len(pre)) = pre

RECURSIVE Rep(_, _)
Rep(s, n) == IF n = 0 THEN <<>> ELSE s \o Rep(s, n - 1)

\* Index of the first character at or after i that is not in set cs.
RECURSIVE SkipWhile(_, _, _)
SkipWhile(s, i, cs) ==
    IF i <= Len(s) /\ s[i] \in cs THEN SkipWhile(s, i + 1, cs) ELSE i

\* Index of the first occurrence of c at or after i, Len(s) + 1 if none.
RECURSIVE IndexOf(_, _, _)
IndexOf(s, c, i) ==
    IF i > Len(s) THEN Len(s) + 1
    ELSE IF s[i] = c THEN i
    ELSE IndexOf(s, c, i + 1)

HasSpace(s) == \E i \in 1..Len(s) : s[i] \in Spaces

\* String.prototype.toLowerCase for one ASCII character.
ToLowerChar(c) == IF c \in UpperLetters THEN AsciiOrder[CharCode(c) + 27] ELSE c
ToLower(s) == [i \in 1..Len(s) |-> ToLowerChar(s[i])]

(***************************************************************************)
(* validatePluginDefinition: the version regular expression                *)
(*   /^(\^|~|>=|<|>|<=|==)?((\d+)(\.([0-9]+|x))?(\.([0-9]+|x))?            *)
(*      (-[a-z0-9.]+)?(\+[a-z0-9.]+)?)?$/i                                 *)
(***************************************************************************)
AlnumDot == Digits \cup LowerLetters \cup UpperLetters \cup {"."}

\* Length of the range prefix the regular expression captures.  A two
\* character alternative wins over "<" or ">" because after "<" or ">" the
\* rest would start with "=", which no version starts with.
RangeLen(v) ==
    IF StartsWith(v, <<">", "=">>) \/ StartsWith(v, <<"<", "=">>)
       \/ StartsWith(v, <<"=", "=">>) THEN 2
    ELSE IF Len(v) >= 1 /\ v[1] \in {"^", "~", "<", ">"} THEN 1
    ELSE 0

\* End (exclusive) of an optional (\.([0-9]+|x)) group starting at i.
DotPartEnd(v, i) ==
    IF i + 1 <= Len(v) /\ v[i] = "."
    THEN IF v[i + 1] \in Digits THEN SkipWhile(v, i + 1, Digits)
         ELSE IF v[i + 1] \in {"x", "X"} THEN i + 2
         ELSE i
    ELSE i

\* End (exclusive) of an optional (-[a-z0-9.]+) or (\+[a-z0-9.]+) group.
TagEnd(v, i, sign) ==
    IF i + 1 <= Len(v) /\ v[i] = sign /\ v[i + 1] \in AlnumDot
    THEN SkipWhile(v, i + 1, AlnumDot)
    ELSE i

\* The positions at which the groups of the regular expression end when it
\* is matched from the left: m[1] is the start of the version, m[2] the end
\* (exclusive) of \d+, m[3] and m[4] of the two (\.([0-9]+|x)) groups, m[5]
\* of the prerelease and m[6] of the build group.
VersionStart(v, r) == <<r + 1, SkipWhile(v, r + 1, Digits)>>
WithDotPart(v, m) == Append(m, DotPartEnd(v, m[Len(m)]))
WithTag(v, m, sign) == Append(m, TagEnd(v, m[Len(m)], sign))
GroupEnds(v) ==
    WithTag(v, WithTag(v, WithDotPart(v, WithDotPart(v, VersionStart(v, RangeLen(v)))), "-"), "+")

\* The result of the regular expression's exec: whether it matched, and the
\* captures the code reads (an empty capture stands for undefined).
PartsAt(v, m) ==
    IF m[2] > m[1]
    THEN [matched |-> m[6] = Len(v) + 1,
          range |-> SubSeq(v, 1, m[1] - 1),
          version |-> SubSeq(v, m[1], Len(v)),
          major |-> SubSeq(v, m[1], m[2] - 1),
          minor |-> SubSeq(v, m[2], m[3] - 1),
          patch |-> SubSeq(v, m[3], m[4] - 1)]
    ELSE [matched |-> m[1] = Len(v) + 1,
          range |-> SubSeq(v, 1, m[1] - 1),
          version |-> <<>>, major |-> <<>>, minor |-> <<>>, patch |-> <<>>]

VersionParts(v) == PartsAt(v, GroupEnds(v))

(***************************************************************************)
(* new URL(value), as far as the validator reads it: protocol and hash.    *)
(* Hosts of https: URLs are modelled for plain host names (letters,        *)
(* digits, "." and "-") followed by an optional path or fragment.          *)
(***************************************************************************)
SchemeChars == Digits \cup LowerLetters \cup UpperLetters \cup {"+", "-", "."}
HostChars == Digits \cup LowerLetters \cup UpperLetters \cup {"-", "."}

\* A scheme ends at colon: a letter, then letters, digits, "+", "-", ".".
SchemeOk(v, colon) ==
    /\ colon <= Len(v)
    /\ colon > 1
    /\ v[1] \in LowerLetters \cup UpperLetters
    /\ \A i \in 2..(colon - 1) : v[i] \in SchemeChars

\* The host of a special (http:, https:) URL from hostStart to hostEnd is
\* not empty and ends at the path, the fragment or the end.
HostOk(v, hostStart, hostEnd) ==
    /\ hostEnd > hostStart
    /\ hostEnd > Len(v) \/ v[hostEnd] \in {"/", "#"}

IsSpecial(protocol) == protocol \in {<<"h", "t", "t", "p", ":">>,
                                     <<"h", "t", "t", "p", "s", ":">>}

\* url.hash: empty for no or an empty fragment
HashFrom(v, hashAt) == IF hashAt >= Len(v) THEN <<>> ELSE SubSeq(v, hashAt, Len(v))

URLAt(v, colon, hostStart) ==
    IF /\ SchemeOk(v, colon)
       /\ IsSpecial(ToLower(SubSeq(v, 1, colon)))
          => HostOk(v, hostStart, SkipWhile(v, hostStart, HostChars))
    THEN [ok |-> TRUE, protocol |-> ToLower(SubSeq(v, 1, colon)),
          hash |-> HashFrom(v, IndexOf(v, "#", 1))]
    ELSE [ok |-> FALSE, protocol |-> <<>>, hash |-> <<>>]

\* The URL parser first removes leading and trailing spaces and all tabs
\* and newlines from its input.
RECURSIVE TrimEnd(_)
TrimEnd(v) == IF v # <<>> /\ v[Len(v)] = " " THEN TrimEnd(SubSeq(v, 1, Len(v) - 1)) ELSE v
URLInput(v) ==
    TrimEnd(SubSeq(SelectSeq(v, LAMBDA ch : ch \notin {"\t", "\n"}),
                   SkipWhile(SelectSeq(v, LAMBDA ch : ch \notin {"\t", "\n"}), 1, {" "}),
                   Len(SelectSeq(v, LAMBDA ch : ch \notin {"\t", "\n"}))))

URLOf(v) == URLAt(v, IndexOf(v, ":", 1), SkipWhile(v, IndexOf(v, ":", 1) + 1, {"/"}))

\* new URL(value): ok is false when it throws
ParseURL(v) == URLOf(URLInput(v))

\* (variant: the expression without its i flag)
IsCommitHash_LowerOnly(h) ==
    /\ Len(h) = 41
    /\ h[1] = "#"
    /\ \A i \in 2..41 : h[i] \in Digits \cup {"a", "b", "c", "d", "e", "f"}

\* /^#[a-f0-9]{40}$/i
IsCommitHash(h) ==
    /\ Len(h) = 41
    /\ h[1] = "#"
    /\ \A i \in 2..41 : h[i] \in Digits \cup HexLetters

Accept(ref) == [ok |-> TRUE, ref |-> ref, err |-> "", index |-> 0]
Reject(kind, index) == [ok |-> FALSE, ref |-> <<>>, err |-> kind, index |-> index]

\* (variant: the range test made without looking at strict)
ValidateVersion_RangeAlways(key, value, index, strict, parts) ==
    IF parts.range # <<>>
    THEN Reject("VersionRange", index)
    ELSE IF strict /\ (parts.minor = <<>> \/ parts.patch = <<>>)
    THEN Reject("VagueVersionRange", index)
    ELSE Accept(key \o <<"@">> \o value)

\* (variant: the two tests of strict mode in the other order)
ValidateVersion_VagueFirst(key, value, index, strict, parts) ==
    IF strict /\ (parts.minor = <<>> \/ parts.patch = <<>>)
    THEN Reject("VagueVersionRange", index)
    ELSE IF strict /\ parts.range # <<>>
    THEN Reject("VersionRange", index)
    ELSE Accept(key \o <<"@">> \o value)

\* lines 310-321: the value matched the version expression
ValidateVersion(key, value, index, strict, parts) ==
    IF strict /\ parts.range # <<>>
    THEN Reject("VersionRange", index)
    ELSE IF strict /\ (parts.minor = <<>> \/ parts.patch = <<>>)
    THEN Reject("VagueVersionRange", index)
    ELSE Accept(key \o <<"@">> \o value)

\* lines 323-340: the value did not match the version expression
ValidateURL(value, index, url) ==
    IF ~url.ok THEN Reject("NotVersionOrURL", index)
    ELSE IF url.protocol = <<"g", "i", "t", "h", "u", "b", ":">>
    THEN IF IsCommitHash(url.hash) THEN Accept(value)
         ELSE Reject("GithubWithoutCommit", index)
    ELSE IF url.protocol \notin {<<"h", "t", "t", "p", "s", ":">>, <<"s", "3", ":">>}
    THEN Reject("UnsupportedProtocol", index)
    ELSE Accept(value)

\* (variant: the test for "*" and "" left out)
validatePluginDefinition_NoVague(key, value, index, strict) ==
    IF HasSpace(key) THEN [ok |-> FALSE, ref |-> <<>>, err |-> "NameWithSpace", index |-> index]
    ELSE IF key = <<>> THEN [ok |-> FALSE, ref |-> <<>>, err |-> "EmptyName", index |-> index]
    ELSE IF VersionParts(value).matched
    THEN ValidateVersion(key, value, index, strict, VersionParts(value))
    ELSE ValidateURL(value, index, ParseURL(value))

validatePluginDefinition(key, value, index, strict) ==
    IF HasSpace(key) THEN Reject("NameWithSpace", index)
    ELSE IF key = <<>> THEN Reject("EmptyName", index)
    ELSE IF value = <<"*">> \/ value = <<>> THEN Reject("VagueVersion", index)
    ELSE IF VersionParts(value).matched
    THEN ValidateVersion(key, value, index, strict, VersionParts(value))
    ELSE ValidateURL(value, index, ParseURL(value))

(***************************************************************************)
(* JS objects with string values: the sequence of <<key, value>> entries   *)
(* in property order (array-index keys first, in numeric order, then the   *)
(* other keys in insertion order).                                         *)
(***************************************************************************)
Keys(obj) == [i \in 1..Len(obj) |-> obj[i][1]]
KeySet(obj) == {obj[i][1] : i \in 1..Len(obj)}

\* Map.prototype.get / property read: the set holding the value, {} for undefined.
Lookup(obj, key) == {obj[i][2] : i \in {j \in 1..Len(obj) : obj[j][1] = key}}

\* A canonical array index ("0", "7", "12"): such keys are ordered first.
IsArrayIndex(key) ==
    /\ Len(key) \in 1..9
    /\ \A i \in 1..Len(key) : key[i] \in Digits
    /\ Len(key) > 1 => key[1] # "0"

NumLess(a, b) == Len(a) < Len(b) \/ (Len(a) = Len(b) /\ StrLess(a, b))

\* sortByFirst, as the comparison "a sorts before b".
sortByFirst(a, b) == StrLess(a[1], b[1])

RECURSIVE InsertSorted(_, _, _)
InsertSorted(e, es, numeric) ==
    IF es = <<>> THEN <<e>>
    ELSE IF (IF numeric THEN NumLess(e[1], Head(es)[1]) ELSE sortByFirst(e, Head(es)))
    THEN <<e>> \o es
    ELSE <<Head(es)>> \o InsertSorted(e, Tail(es), numeric)

\* Array.prototype.sort(sortByFirst) (stable: equal keys keep their order).
RECURSIVE SortEntries(_, _)
SortEntries(es, numeric) ==
    IF es = <<>> THEN <<>>
    ELSE InsertSorted(es[Len(es)], SortEntries(SubSeq(es, 1, Len(es) - 1), numeric), numeric)

\* obj[key] = value
SetProperty(obj, key, value) ==
    IF \E i \in 1..Len(obj) : obj[i][1] = key
    THEN [i \in 1..Len(obj) |-> IF obj[i][1] = key THEN <<key, value>> ELSE obj[i]]
    ELSE IF IsArrayIndex(key)
    THEN LET idx == SelectSeq(obj, LAMBDA e : IsArrayIndex(e[1]))
             rest == SelectSeq(obj, LAMBDA e : ~IsArrayIndex(e[1]))
         IN  SortEntries(Append(idx, <<key, value>>), TRUE) \o rest
    ELSE Append(obj, <<key, value>>)

\* JSON.stringify of an object with string values (no character of the
\* model's alphabet needs escaping).
Quote(str) == <<"\"">> \o str \o <<"\"">>

RECURSIVE StringifyEntries(_)
StringifyEntries(obj) ==
    IF obj = <<>> THEN <<>>
    ELSE Quote(obj[1][1]) \o <<":">> \o Quote(obj[1][2])
         \o (IF Len(obj) > 1 THEN <<",">> ELSE <<>>)
         \o StringifyEntries(Tail(obj))

Stringify(obj) == <<"{">> \o StringifyEntries(obj) \o <<"}">>

(***************************************************************************)
(* validatePluginDefinitions                                               *)
(***************************************************************************)
\* The loop over the sorted entries: the first invalid entry throws, the
\* others are set on the result object.
RECURSIVE ValidateLoop(_, _, _, _)
\* one round of the loop, v being the outcome of validatePluginDefinition
ValidateEntry(entries, index, result, strict, v) ==
    IF ~v.ok THEN [ok |-> FALSE, map |-> <<>>, err |-> v.err, index |-> v.index]
    ELSE ValidateLoop(Tail(entries), index + 1,
                      SetProperty(result, Head(entries)[1], Head(entries)[2]), strict)

ValidateLoop(entries, index, result, strict) ==
    IF entries = <<>> THEN [ok |-> TRUE, map |-> result, err |-> "", index |-> 0]
    ELSE ValidateEntry(entries, index, result, strict,
                       validatePluginDefinition(Head(entries)[1], Head(entries)[2], index, strict))

\* (variant: the entries taken in the order of the input)
validatePluginDefinitions_Unsorted(input, strict) ==
    IF ~input.isObject THEN [ok |-> FALSE, map |-> <<>>, err |-> "NotAnObject", index |-> 0]
    ELSE ValidateLoop(input.entries, 0, <<>>, strict)

\* input: [isObject |-> BOOLEAN, entries |-> the entries of the object or Map]
validatePluginDefinitions(input, strict) ==
    IF ~input.isObject THEN [ok |-> FALSE, map |-> <<>>, err |-> "NotAnObject", index |-> 0]
    ELSE ValidateLoop(SortEntries(input.entries, FALSE), 0, <<>>, strict)

(***************************************************************************)
(* src/util.ts: the entry-point resolver.                                  *)
(*                                                                         *)
(* A JS value is a record: undefined, null, a string (s) or an object (e,  *)
(* its <<key, value>> entries in property order).  A function the code     *)
(* returns (a matcher, a resolver) is the record of what it closes over.   *)
(***************************************************************************)
Undefined == [t |-> "undefined", s |-> <<>>, e |-> <<>>]
Null == [t |-> "null", s |-> <<>>, e |-> <<>>]
Str(s) == [t |-> "string", s |-> s, e |-> <<>>]
Object(e) == [t |-> "object", s |-> <<>>, e |-> e]

\* A parsed package.json: the fields createMatcher reads, undefined when absent.
Pkg(main, type, module, exports) ==
    [main |-> main, type |-> type, module |-> module, exports |-> exports]
NoPkg == Pkg(Undefined, Undefined, Undefined, Undefined)

\* key in map
In(key, map) == \E i \in 1..Len(map.e) : map.e[i][1] = key
\* map[key]
Get(map, key) ==
    IF In(key, map)
    THEN map.e[CHOOSE i \in 1..Len(map.e) : map.e[i][1] = key][2]
    ELSE Undefined

EndsWith(s, suf) == Len(s) >= Len(suf) /\ SubSeq(s, Len(s) - Len(suf) + 1, Len(s)) = suf

Clamp(i, n) == IF i < 0 THEN 0 ELSE IF i > n THEN n ELSE i
\* String.prototype.substring(from, to): both clamped to 0..length, swapped
\* when from > to
Substring(s, from, to) ==
    IF Clamp(from, Len(s)) <= Clamp(to, Len(s))
    THEN SubSeq(s, Clamp(from, Len(s)) + 1, Clamp(to, Len(s)))
    ELSE SubSeq(s, Clamp(to, Len(s)) + 1, Clamp(from, Len(s)))

\* String.prototype.indexOf('*'), 0-based, -1 if there is none
StarOf(s) == IF IndexOf(s, "*", 1) > Len(s) THEN -1 ELSE IndexOf(s, "*", 1) - 1

\* String.prototype.trim
Trim(s) ==
    IF SkipWhile(s, 1, Spaces) > Len(s) THEN <<>>
    ELSE SubSeq(s, SkipWhile(s, 1, Spaces),
                CHOOSE j \in 1..Len(s) : /\ s[j] \notin Spaces
                                         /\ \A k \in (j + 1)..Len(s) : s[k] \in Spaces)

\* path.resolve(pkgPth, location) for an absolute pkgPth: the segments of
\* the joined path, without '' and '.', each '..' removing the one before.
RECURSIVE SplitPath(_)
SplitPath(s) ==
    IF IndexOf(s, "/", 1) > Len(s) THEN <<s>>
    ELSE <<SubSeq(s, 1, IndexOf(s, "/", 1) - 1)>>
         \o SplitPath(SubSeq(s, IndexOf(s, "/", 1) + 1, Len(s)))

RECURSIVE NormalizeSegments(_, _)
NormalizeSegments(segs, acc) ==
    IF segs = <<>> THEN acc
    ELSE IF Head(segs) \in {<<>>, <<".">>} THEN NormalizeSegments(Tail(segs), acc)
    ELSE IF Head(segs) = <<".", ".">>
    THEN NormalizeSegments(Tail(segs), SubSeq(acc, 1, Len(acc) - 1))
    ELSE NormalizeSegments(Tail(segs), Append(acc, Head(segs)))

RECURSIVE JoinPath(_)
JoinPath(segs) == IF segs = <<>> THEN <<>> ELSE <<"/">> \o Head(segs) \o JoinPath(Tail(segs))

PathOf(segs) == IF segs = <<>> THEN <<"/">> ELSE JoinPath(segs)

pathResolve(pkgPth, location) ==
    PathOf(NormalizeSegments(SplitPath(IF StartsWith(location, <<"/">>)
                                       THEN location
                                       ELSE pkgPth \o <<"/">> \o location), <<>>))

\* the condition names: default import node require
KDefault == <<"d", "e", "f", "a", "u", "l", "t">>
KImport == <<"i", "m", "p", "o", "r", "t">>
KNode == <<"n", "o", "d", "e">>
KRequire == <<"r", "e", "q", "u", "i", "r", "e">>

\* lines 10-23
isDefinition(map) ==
    IF map = Str(<<"s", "t", "r", "i", "n", "g">>) THEN TRUE
    ELSE IF map.t # "object" THEN FALSE
    ELSE \E c \in {KDefault, KImport, KNode, KRequire} : In(c, map)

\* What a matcher returns: undefined, or { cause, location }.  The cause is
\* the sequence of its parts, a pattern being spelled by its characters.
NoImport == [defined |-> FALSE, cause |-> <<>>, location |-> Undefined]
Import(cause, location) == [defined |-> TRUE, cause |-> cause, location |-> location]

\* (variant: .module looked at before .main)
LegacyMatch_ModuleFirst(pkgPth, pkg, pkgType, name, type) ==
    IF type = "module" /\ pkg.module # Undefined
    THEN Import(<<".module">>, Str(pathResolve(pkgPth, pkg.module.s)))
    ELSE IF pkg.main # Undefined /\ type = pkgType
    THEN Import(IF type = "module" THEN <<".main and .type=module">> ELSE <<".main">>,
                Str(pathResolve(pkgPth, pkg.main.s)))
    ELSE NoImport

\* lines 45-59: the matcher createLegacyMatcher returns, called
LegacyMatch(pkgPth, pkg, pkgType, name, type) ==
    IF pkg.main # Undefined /\ type = pkgType
    THEN Import(IF type = "module" THEN <<".main and .type=module">> ELSE <<".main">>,
                Str(pathResolve(pkgPth, pkg.main.s)))
    ELSE IF type = "module" /\ pkg.module # Undefined
    THEN Import(<<".module">>, Str(pathResolve(pkgPth, pkg.module.s)))
    ELSE NoImport

\* lines 43-44
createLegacyMatcher(pkgPth, pkg) ==
    [kind |-> "legacy", pkgPth |-> pkgPth, pkg |-> pkg,
     pkgType |-> IF pkg.type = Str(<<"m", "o", "d", "u", "l", "e">>) THEN "module" ELSE "commonjs",
     commonjs |-> <<>>, module |-> <<>>]

\* lines 64-99: the pattern matcher of a pattern applied to test; undefined
\* is matched = FALSE, otherwise capture is the string it returns
NoMatch == [matched |-> FALSE, capture |-> <<>>]
Matched(capture) == [matched |-> TRUE, capture |-> capture]

PatternMatchAt(pattern, test, star) ==
    IF star # -1
    THEN IF star # Len(pattern) - 1
         THEN IF /\ StartsWith(test, Substring(pattern, 0, star))
                 /\ EndsWith(test, Substring(pattern, star + 1, Len(pattern)))
              THEN Matched(Substring(test, star, Len(test) - (Len(pattern) - star - 1)))
              ELSE NoMatch
         ELSE IF StartsWith(test, Substring(pattern, 0, star))
              THEN Matched(Substring(test, star, Len(test)))
              ELSE NoMatch
    ELSE IF test = pattern THEN Matched(<<>>) ELSE NoMatch

createPatternMatcher(pattern, test) == PatternMatchAt(pattern, test, StarOf(pattern))

\* A resolver: the cause and the target it closes over; subst tells whether
\* a '*' of the target is replaced by the input (lookup) or not (a string
\* definition).
NoResolver == [defined |-> FALSE, cause |-> <<>>, target |-> Undefined, subst |-> FALSE]
Resolver(cause, target, subst) ==
    [defined |-> TRUE, cause |-> cause, target |-> target, subst |-> subst]

\* lines 101-119
lookup(cause, pattern) ==
    IF pattern = Undefined THEN NoResolver ELSE Resolver(cause, pattern, TRUE)

\* a ?? b
Coalesce(a, b) == IF a.defined THEN a ELSE b

\* (variant: require looked up before node)
createResolver_RequireFirst(type, cause, part) ==
    IF part = Null THEN Resolver(cause, Null, FALSE)
    ELSE IF part.t = "string" THEN Resolver(cause, part, FALSE)
    ELSE Coalesce(IF type = "module"
                  THEN lookup(cause \o <<".import">>, Get(part, KImport))
                  ELSE Coalesce(lookup(cause \o <<".require">>, Get(part, KRequire)),
                                lookup(cause \o <<".node">>, Get(part, KNode))),
                  lookup(cause \o <<".default">>, Get(part, KDefault)))

\* lines 123-134
createResolver(type, cause, part) ==
    IF part = Null THEN Resolver(cause, Null, FALSE)
    ELSE IF part.t = "string" THEN Resolver(cause, part, FALSE)
    ELSE Coalesce(IF type = "module"
                  THEN lookup(cause \o <<".import">>, Get(part, KImport))
                  ELSE Coalesce(lookup(cause \o <<".node">>, Get(part, KNode)),
                                lookup(cause \o <<".require">>, Get(part, KRequire))),
                  lookup(cause \o <<".default">>, Get(part, KDefault)))

\* lines 106-117, 125, 128: the resolver called with the captured input
Resolve(resolver, input) ==
    IF resolver.target = Null THEN Import(resolver.cause, Null)
    ELSE IF resolver.subst /\ StarOf(resolver.target.s) # -1
    THEN Import(resolver.cause,
                Str(Substring(resolver.target.s, 0, StarOf(resolver.target.s))
                    \o input
                    \o Substring(resolver.target.s, StarOf(resolver.target.s) + 1,
                                 Len(resolver.target.s))))
    ELSE Import(resolver.cause, resolver.target)

\* lines 141-145, as used by the stable Array.prototype.sort: the entries
\* with the longer pattern first, entries of equal length in their order
RECURSIVE InsertLonger(_, _)
InsertLonger(entry, sorted) ==
    IF sorted = <<>> THEN <<entry>>
    ELSE IF Len(Head(sorted)[1]) >= Len(entry[1])
    THEN <<Head(sorted)>> \o InsertLonger(entry, Tail(sorted))
    ELSE <<entry>> \o sorted

RECURSIVE longerMatchFirst(_, _)
longerMatchFirst(entries, sorted) ==
    IF entries = <<>> THEN sorted
    ELSE longerMatchFirst(Tail(entries), InsertLonger(Head(entries), sorted))

ExportsCause(match) == <<".exports['">> \o match \o <<"']">>

\* lines 155-172: the matchers of one module system
RECURSIVE DefMatchers(_, _)
DefMatchers(entries, type) ==
    IF entries = <<>> THEN <<>>
    ELSE IF createResolver(type, ExportsCause(Head(entries)[1]), Head(entries)[2]).defined
    THEN <<[match |-> Head(entries)[1],
            resolve |-> createResolver(type, ExportsCause(Head(entries)[1]), Head(entries)[2])]>>
         \o DefMatchers(Tail(entries), type)
    ELSE DefMatchers(Tail(entries), type)

\* lines 147-172
createExportsMatcher(pkgPth, exports) ==
    [kind |-> "exports", pkgPth |-> pkgPth, pkg |-> NoPkg, pkgType |-> "commonjs",
     commonjs |-> DefMatchers(longerMatchFirst(exports.e, <<>>), "commonjs"),
     module |-> DefMatchers(longerMatchFirst(exports.e, <<>>), "module")]

\* lines 181-185
WithLocation(pkgPth, result) ==
    IF result.location.t = "string"
    THEN [result EXCEPT !.location = Str(pathResolve(pkgPth, result.location.s))]
    ELSE result

\* lines 173-187: the matcher createExportsMatcher returns, called
RECURSIVE ExportsMatch(_, _, _)
ExportsMatch(pkgPth, typeMatchers, name) ==
    IF typeMatchers = <<>> THEN NoImport
    ELSE IF ~createPatternMatcher(Head(typeMatchers).match, name).matched
    THEN ExportsMatch(pkgPth, Tail(typeMatchers), name)
    ELSE WithLocation(pkgPth,
                      Resolve(Head(typeMatchers).resolve,
                              createPatternMatcher(Head(typeMatchers).match, name).capture))

\* lines 190-195
createMatcher(pkgPth, pkg) ==
    IF isDefinition(pkg.exports)
    THEN createExportsMatcher(pkgPth, Object(<<<<<<".">>, pkg.exports>>>>))
    ELSE IF pkg.exports.t = "object"
    THEN createExportsMatcher(pkgPth, pkg.exports)
    ELSE createLegacyMatcher(pkgPth, pkg)

\* matcher(name, type)
CallMatcher(matcher, name, type) ==
    IF matcher.kind = "legacy"
    THEN LegacyMatch(matcher.pkgPth, matcher.pkg, matcher.pkgType, name, type)
    ELSE ExportsMatch(matcher.pkgPth,
                      IF type = "module" THEN matcher.module ELSE matcher.commonjs,
                      name)

\* lines 197-209
WithDotSlash(name) == IF StartsWith(name, <<".", "/">>) THEN name ELSE <<".", "/">> \o name
WithoutSlash(name) == IF EndsWith(name, <<"/">>) THEN Substring(name, 0, Len(name) - 1) ELSE name
normalize(name) ==
    WithoutSlash(WithDotSlash(Trim(IF name \in {Undefined, Null} THEN <<>> ELSE name.s)))

(***************************************************************************)
(* Bounds and inputs                                                       *)
(***************************************************************************)
MaxTime == 3        \* the clock runs from 0 to MaxTime minutes
MaxCalls == 2       \* loadPlugins calls per behaviour
MaxChunks == 1      \* output chunks a subprocess writes
MaxEntries == 3     \* entries of an object passed to validatePluginDefinitions directly
MaxGets == 3        \* getMatcher calls per behaviour
MaxOps == 2         \* calls of a Plugin's package() and data() per behaviour

DEFAULT_MAX_AGE == 2    \* 1000 * 60 * 2 ms, in minutes
S3_DOWNLOAD_CONCURRENCY == 10   \* the width of the download queue

Procs == {1, 2}     \* invocations sharing the install root
Callers == {1}      \* the invocations that call loadPlugins under Spec

A == <<"a">>
B == <<"b">>
V123 == <<"1", ".", "2", ".", "3">>
V200 == <<"2", ".", "0", ".", "0">>
VStar == <<"*">>
VCaret == <<"^", "4", ".", "5">>
VS3 == <<"s", "3", ":", "/", "/", "k", "/", "b">>
VS3a == <<"s", "3", ":", "/", "/", "k", "/", "a">>
VS3Upper == <<"S", "3", ":", "/", "/", "k", "/", "b">>

Obj(entries) == [isObject |-> TRUE, entries |-> entries]

\* The desired specs loadPlugins is called with.
VNone == [isObject |-> FALSE, entries |-> <<>>]   \* null, or a string

Inputs == {VNone,
           Obj(<<>>),
           Obj(<<<<A, V123>>>>),
           Obj(<<<<B, V200>>, <<A, V123>>>>),
           Obj(<<<<A, V200>>>>),
           Obj(<<<<A, VStar>>>>),
           Obj(<<<<A, V123>>, <<B, VS3>>>>),
           Obj(<<<<A, VCaret>>>>),
           Obj(<<<<B, VStar>>, <<A, VCaret>>>>),
           Obj(<<<<A, VS3a>>, <<B, VS3>>>>),
           Obj(<<<<B, VS3Upper>>>>)}

(***************************************************************************)
(* Values passed to the validator directly, by the shape they are written  *)
(* in.                                                                     *)
(***************************************************************************)
\* a version with a range prefix: ^4.5 ~ >=1.2.3 <=1 ==1.2.3 <1.2.3 >1 ~1.0.0 ^1.2.3
RangedValues ==
    {<<"^", "4", ".", "5">>,
     <<"~">>,
     <<">", "=", "1", ".", "2", ".", "3">>,
     <<"<", "=", "1">>,
     <<"=", "=", "1", ".", "2", ".", "3">>,
     <<"<", "1", ".", "2", ".", "3">>,
     <<">", "1">>,
     <<"~", "1", ".", "0", ".", "0">>,
     <<"^", "1", ".", "2", ".", "3">>}
\* no range prefix, minor or patch missing: 1 1.2 1.x 1.2-rc.1 1+b
PartialValues ==
    {<<"1">>,
     <<"1", ".", "2">>,
     <<"1", ".", "x">>,
     <<"1", ".", "2", "-", "r", "c", ".", "1">>,
     <<"1", "+", "b">>}
\* major.minor.patch, with optional prerelease and build: 1.2.3 10.20.30 1.2.3-rc.1 1.2.3+b 1.2.3-rc.1+b
BareValues ==
    {<<"1", ".", "2", ".", "3">>,
     <<"1", "0", ".", "2", "0", ".", "3", "0">>,
     <<"1", ".", "2", ".", "3", "-", "r", "c", ".", "1">>,
     <<"1", ".", "2", ".", "3", "+", "b">>,
     <<"1", ".", "2", ".", "3", "-", "r", "c", ".", "1", "+", "b">>}
\* x in the place of minor or patch: 1.2.x 1.x.x 1.X.3
LooseValues ==
    {<<"1", ".", "2", ".", "x">>,
     <<"1", ".", "x", ".", "x">>,
     <<"1", ".", "X", ".", "3">>}
\* neither a version nor a URL: 1.2x.3 1.2.3x 1.x2.3 1.2.3.4 foo https:// :x
MalformedValues ==
    {<<"1", ".", "2", "x", ".", "3">>,
     <<"1", ".", "2", ".", "3", "x">>,
     <<"1", ".", "x", "2", ".", "3">>,
     <<"1", ".", "2", ".", "3", ".", "4">>,
     <<"f", "o", "o">>,
     <<"h", "t", "t", "p", "s", ":", "/", "/">>,
     <<":", "x">>}
\* https: URLs (the last with a leading space)
HttpsValues ==
    {<<"h", "t", "t", "p", "s", ":", "/", "/", "f", "o", "o">>,
     <<"H", "T", "T", "P", "S", ":", "/", "/", "f", "o", "o", "/", "x", ".", "t", "g", "z">>,
     <<"h", "t", "t", "p", "s", ":", "f", "o", "o">>,
     <<" ", "h", "t", "t", "p", "s", ":", "/", "/", "f", "o", "o">>}
\* s3: URLs (the last with a trailing space)
S3Values ==
    {<<"s", "3", ":", "f", "o", "o">>,
     <<"s", "3", ":", "/", "/", "k", "/", "b">>,
     <<"S", "3", ":", "/", "/", "k", "/", "b">>,
     <<"s", "3", ":", "/", "/", "k", "/", "b", " ">>}
\* URLs of other schemes: http://some.tgz ftp://h/x git+ssh://h/x file:///x
OtherSchemeValues ==
    {<<"h", "t", "t", "p", ":", "/", "/", "s", "o", "m", "e", ".", "t", "g", "z">>,
     <<"f", "t", "p", ":", "/", "/", "h", "/", "x">>,
     <<"g", "i", "t", "+", "s", "s", "h", ":", "/", "/", "h", "/", "x">>,
     <<"f", "i", "l", "e", ":", "/", "/", "/", "x">>}
\* 40 hexadecimal digits, in lower and in upper case, and 40 letters that are not
Hex40 == Rep(<<"a", "b", "c", "d", "e", "f", "0", "1", "2", "3">>, 4)
HEX40 == Rep(<<"A", "B", "C", "D", "E", "F", "4", "5", "6", "7">>, 4)
NonHex40 == Rep(<<"g", "h", "i", "j", "k", "l", "m", "n", "o", "p">>, 4)
GithubRepo == <<"g", "i", "t", "h", "u", "b", ":", "f", "o", "o", "/", "b", "a", "r">>
\* github:foo/bar#<commit>
GithubPinnedValues == {GithubRepo \o <<"#">> \o Hex40, GithubRepo \o <<"#">> \o HEX40}
\* github: without a fragment, with a branch name, with 39 or 41 digits
GithubUnpinnedValues ==
    {GithubRepo,
     GithubRepo \o <<"#">>,
     GithubRepo \o <<"#", "s", "o", "m", "e", "-", "b", "r", "a", "n", "c", "h">>,
     GithubRepo \o <<"#">> \o Tail(Hex40),
     GithubRepo \o <<"#">> \o Hex40 \o <<"0">>,
     GithubRepo \o <<"#">> \o NonHex40}

ProbeValues ==
    RangedValues \cup PartialValues \cup BareValues \cup LooseValues \cup MalformedValues
    \cup HttpsValues \cup S3Values \cup OtherSchemeValues
    \cup GithubPinnedValues \cup GithubUnpinnedValues \cup {VStar, <<>>}

N10 == <<"1", "0">>
N9 == <<"9">>
\* names: plain, array indices, with a space, empty
ProbeNames == {A, B, N10, N9, <<" ", "a">>, <<"a", "\t">>, <<>>}

\* the names and values of the objects with several entries
OrderNames == {A, B, N10, N9}
OrderValues == {V123, VStar, <<"1", ".", "2">>, <<"h", "t", "t", "p", ":", "/", "/", "h">>}

\* Objects and Maps of 2..MaxEntries entries, in every insertion order.
OrderInputs ==
    {Obj(es) : es \in {f \in UNION {[1..n -> OrderNames \X OrderValues] : n \in 2..MaxEntries} :
                          \A i, j \in DOMAIN f : i # j => f[i][1] # f[j][1]}}

\* What validatePluginDefinitions is called with directly.
ProbeInputs ==
    {VNone} \cup {Obj(<<<<n, v>>>>) : n \in ProbeNames, v \in ProbeValues} \cup OrderInputs

\* The options loadPlugins is called with, after its defaults are filled in
\* (maxAge = DEFAULT_MAX_AGE, strict = true, failQuietly = true).
DefaultOpts == [maxAge |-> DEFAULT_MAX_AGE, strict |-> TRUE, failQuietly |-> TRUE]

\* The calls of loadPlugins: every desired spec with the default options,
\* the specs with a version range also with strict: false, and two specs
\* also with failQuietly: false.
Calls ==
    {[plugins |-> i, opts |-> DefaultOpts] : i \in Inputs}
    \cup {[plugins |-> i, opts |-> [DefaultOpts EXCEPT !.strict = FALSE]] :
             i \in {Obj(<<<<A, VCaret>>>>), Obj(<<<<B, VStar>>, <<A, VCaret>>>>)}}
    \cup {[plugins |-> i, opts |-> [DefaultOpts EXCEPT !.failQuietly = FALSE]] :
             i \in {Obj(<<<<A, V123>>>>), Obj(<<<<A, V123>>, <<B, VS3>>>>)}}

\* The calls made where invocations overlap or are repeated.
RaceCalls ==
    {[plugins |-> i, opts |-> DefaultOpts] :
        i \in {Obj(<<<<A, V123>>>>), Obj(<<<<A, V200>>>>), Obj(<<<<A, V123>>, <<B, VS3>>>>)}}

Ops == {"remove", "install"}

\* The manifests and requests of the resolver (src/test/util.test.ts and
\* the conditions of a definition in every combination).
PkgPth == <<"/", "r", "o", "o", "t">>
OtherPth == <<"/", "o", "p", "t">>

JsA == <<"a", ".", "j", "s">>                               \* a.js
JsTest == <<".", "/", "t", "e", "s", "t", ".", "j", "s">>   \* ./test.js
MjsB == <<"b", ".", "m", "j", "s">>                         \* b.mjs
TypeModule == <<"m", "o", "d", "u", "l", "e">>
TypeCommonjs == <<"c", "o", "m", "m", "o", "n", "j", "s">>
Js(c) == <<".", "/", c, ".", "j", "s">>                     \* ./<c>.js
CjsStar == <<".", "/", "c", "j", "s", "/", "*", ".", "j", "s">>   \* ./cjs/*.js
MjsStar == <<".", "/", "m", "j", "s", "/", "*">>                   \* ./mjs/*

PDot == <<".">>
PAny == <<".", "/", "*">>                                          \* ./*
PBakTs == <<".", "/", "b", "a", "k", "/", "*", ".", "t", "s">>     \* ./bak/*.ts
PFoo == <<".", "/", "f", "o", "o", "/", "*">>                      \* ./foo/*
PBar == <<".", "/", "b", "a", "r", "/", "*">>                      \* ./bar/*
PHidden == <<".", "/", "h", "i", "d", "d", "e", "n">>              \* ./hidden
PCA == <<".", "/", "c", "-", "a">>                                 \* ./c-a
PCB == <<".", "/", "c", "-", "b">>                                 \* ./c-b
PCC == <<".", "/", "c", "-", "c">>                                 \* ./c-c
PC == <<".", "/", "c">>                                            \* ./c

\* manifests without exports (and with exports: null)
LegacyPkgs ==
    {Pkg(main, type, module, exports) :
        main \in {Undefined, Str(JsTest), Str(JsA)},
        type \in {Undefined, Str(TypeModule), Str(TypeCommonjs)},
        module \in {Undefined, Str(MjsB)},
        exports \in {Undefined, Null}}

\* { main: 'a.js', exports: <definition> }
WithExports(exports) == Pkg(Str(JsA), Undefined, Undefined, exports)

\* 'export override string', 'export override object'
OverridePkgs ==
    {WithExports(Str(Js("b"))),
     WithExports(Object(<<<<KImport, Str(Js("b"))>>, <<KRequire, Str(Js("c"))>>>>))}

\* 'export deep override'
DeepPkg ==
    WithExports(Object(<<
        <<PDot, Object(<<<<KRequire, Str(Js("b"))>>, <<KImport, Str(Js("c"))>>>>)>>,
        <<PCA, Object(<<<<KRequire, Str(Js("d"))>>, <<KImport, Str(Js("e"))>>>>)>>,
        <<PCB, Object(<<<<KDefault, Str(Js("f"))>>>>)>>,
        <<PCC, Object(<<<<KNode, Str(Js("g"))>>, <<KRequire, Str(Js("h"))>>,
                        <<KDefault, Str(Js("i"))>>>>)>> >>))

\* 'pattern'
PatternPkg ==
    WithExports(Object(<<
        <<PFoo, Null>>,
        <<PBar, Object(<<<<KRequire, Null>>>>)>>,
        <<PDot, Object(<<<<KRequire, Str(Js("b"))>>, <<KImport, Str(Js("c"))>>>>)>>,
        <<PBakTs, Object(<<<<KRequire, Str(CjsStar)>>>>)>>,
        <<PAny, Object(<<<<KRequire, Str(CjsStar)>>, <<KImport, Str(MjsStar)>>>>)>> >>))

\* { './*': A, './bak/*.ts': B }, in both orders of the two patterns
TieA == {Str(Js("a")), Object(<<<<KRequire, Str(CjsStar)>>, <<KImport, Str(MjsStar)>>>>)}
TieB == {Str(Js("b")), Null, Object(<<<<KDefault, Str(CjsStar)>>>>)}
TiePkgs ==
    {WithExports(Object(<<<<PAny, a>>, <<PBakTs, b>>>>)) : a \in TieA, b \in TieB}
    \cup {WithExports(Object(<<<<PBakTs, b>>, <<PAny, a>>>>)) : a \in TieA, b \in TieB}

\* { './hidden': null }
HiddenPkg == WithExports(Object(<<<<PHidden, Null>>>>))

\* { './bak/*.ts': './cjs/*.js' }: the target of a pattern given as a string
StarStringPkg == WithExports(Object(<<<<PBakTs, Str(CjsStar)>>>>))

\* { './c': D } for every definition object D: each condition absent, null
\* or a path of its own
CondKeys == <<KImport, KNode, KRequire, KDefault>>
CondTarget(k) == Js(Head(k))
CondObject(f) ==
    LET present == SelectSeq(CondKeys, LAMBDA k : f[k] # "absent")
    IN  Object([i \in 1..Len(present) |->
                   <<present[i],
                     IF f[present[i]] = "null" THEN Null ELSE Str(CondTarget(present[i]))>>])
CondObjects ==
    {CondObject(f) : f \in [{KImport, KNode, KRequire, KDefault} -> {"absent", "null", "string"}]}
CondPkgs == {WithExports(Object(<<<<PC, d>>>>)) : d \in CondObjects}

ResolverPkgs ==
    LegacyPkgs \cup OverridePkgs \cup {DeepPkg, PatternPkg, HiddenPkg, StarStringPkg}
    \cup TiePkgs \cup CondPkgs

\* the requests: '' . ./ c-a ./c-a c-a.js c-c ./c-c hidden ./hidden
\* bak/x.ts ./bak/x.ts foo/c-a ./foo/c-a ./bar/c-a c ./c ./c/ and ' ./c'
RootNames == {<<>>, <<".">>, <<".", "/">>}
ResolverNames ==
    RootNames
    \cup {<<"c", "-", "a">>, PCA, <<"c", "-", "a", ".", "j", "s">>, <<"c", "-", "c">>, PCC,
          <<"h", "i", "d", "d", "e", "n">>, PHidden,
          <<"b", "a", "k", "/", "x", ".", "t", "s">>,
          <<".", "/", "b", "a", "k", "/", "x", ".", "t", "s">>,
          <<"f", "o", "o", "/", "c", "-", "a">>,
          <<".", "/", "f", "o", "o", "/", "c", "-", "a">>,
          <<".", "/", "b", "a", "r", "/", "c", "-", "a">>,
          <<"c">>, PC, PC \o <<"/">>, <<" ">> \o PC}

Types == {"module", "commonjs"}

\* the patterns createPatternMatcher is called with directly: without '*',
\* with '*' at the end, and with '*' in the middle (./c*c ./bak/*.ts)
POverlap == PC \o <<"*", "c">>
Patterns == {PDot, PC, PAny, PFoo, PBakTs, POverlap}

\* the manifest objects getMatcher is called with, and the install paths
CachePkgs == {Pkg(Str(<<"i", "n", "d", "e", "x", ".", "j", "s">>), Undefined, Undefined, Undefined),
              DeepPkg, HiddenPkg}
PkgObjects == {1, 2}
\* the requests made of the matchers getMatcher returns: . and ./hidden
CacheNames == {PDot, PHidden}
DepPaths == {PkgPth, OtherPth}

\* the force option: left out, false, true
Forces == {"undefined", "false", "true"}
\* the contents package.json can have, and 0 for no package.json
Manifests == {1}
PackageFiles == {0} \cup Manifests
\* the names assertInstalled returns to loadPlugins
NameLists == {<<>>, <<A>>, <<B, A>>}
Handles == {1, 2}
DEFAULT_TMP_DIR == <<"/", "t", "m", "p">>

(***************************************************************************)
(* State                                                                   *)
(***************************************************************************)
VARIABLES
    now,        \* Date.now(), in minutes
    file,       \* the state file <tmpDir>/.plugins.installed
    installed,  \* the packages in <tmpDir>/plugins: entries <<name, reference>>
    call,       \* per invocation: the frame of loadPlugins / assertInstalled
    child,      \* per invocation and npm operation: the spawned subprocess
    ncalls,     \* number of loadPlugins calls made
    probe,      \* a direct call of the validator: its arguments and its outcome
    request,    \* a direct call of createMatcher and of the matcher it returns
    cache,      \* the WeakMap of getMatcher, the matchers created, the calls made
    plugin      \* the Plugins prepare returns (_pkg, _data, promises, the calls made)
                \* and the package.json of each

vars == <<now, file, installed, call, child, ncalls, probe, request, cache, plugin>>

NoFile == [kind |-> "absent", hasMap |-> FALSE, hash |-> <<>>, pluginsMap |-> <<>>, mtime |-> 0]
GarbageFile(t) == [kind |-> "garbage", hasMap |-> FALSE, hash |-> <<>>, pluginsMap |-> <<>>, mtime |-> t]
\* what writeFile(state.path, JSON.stringify(stateFs)) leaves on disk
StateFile(hash, pluginsMap, t) ==
    [kind |-> "json", hasMap |-> TRUE, hash |-> hash, pluginsMap |-> pluginsMap, mtime |-> t]

NoChild == [status |-> "none", args |-> <<>>, entries |-> <<>>, code |-> 0, pending |-> 0, out |-> 0]

EmptyState == [hash |-> <<>>, hasTime |-> FALSE, timeMs |-> 0, hasMap |-> TRUE, pluginsMap |-> <<>>]
NoOutcome == [kind |-> "none", names |-> <<>>, err |-> ""]

IdleCall == [pc |-> "idle",
             plugins |-> Obj(<<>>), strict |-> TRUE, maxAge |-> DEFAULT_MAX_AGE,
             failQuietly |-> TRUE,
             state |-> EmptyState,
             pluginsMap |-> <<>>, hash |-> <<>>,
             toRemove |-> <<>>, toInstall |-> <<>>,
             index |-> 0, installKeys |-> <<>>,
             max |-> 0, timeMs |-> 0,
             outcome |-> NoOutcome,
             \* history: what the call has done so far
             validated |-> FALSE,
             retry |-> FALSE,
             log |-> <<>>,
             fileAtStart |-> NoFile]

NoResult == [ok |-> FALSE, ref |-> <<>>, map |-> <<>>, err |-> "", index |-> 0]
NoProbe == [pc |-> "none", input |-> VNone, strict |-> TRUE,
            one |-> NoResult, again |-> NoResult, all |-> NoResult]

NoMatcher == [kind |-> "none", pkgPth |-> <<>>, pkg |-> NoPkg, pkgType |-> "commonjs",
              commonjs |-> <<>>, module |-> <<>>]
NoRequest == [pc |-> "none", pkg |-> NoPkg, name |-> <<>>, type |-> "commonjs",
              matcher |-> NoMatcher, result |-> NoImport,
              hasNormalized |-> FALSE, normalized |-> <<>>,
              hasAgain |-> FALSE, again |-> <<>>,
              pattern |-> <<>>, capture |-> NoMatch]
NoCache == [pkgs |-> <<>>, map |-> <<>>, matchers |-> <<>>, calls |-> <<>>]
NoPlugin == [name |-> <<>>, path |-> <<>>, _pkg |-> 0, _data |-> 0, promises |-> <<>>,
             reads |-> 0, loads |-> 0, calls |-> <<>>]
NoPlugins == [pc |-> "none", names |-> <<>>, files |-> <<>>, handles |-> <<>>]

\* State files found at start: none, one that is not JSON, the JSON text
\* {} (no pluginsMap), or a record left by an earlier deployment whose hash
\* is not the serialization of its map.
InitFiles == {NoFile,
              GarbageFile(0),
              [kind |-> "json", hasMap |-> FALSE, hash |-> <<>>, pluginsMap |-> <<>>, mtime |-> 0],
              StateFile(<<"{", "}">>, <<<<A, V123>>>>, 0)}

Init ==
    /\ now = 0
    /\ file \in InitFiles
    /\ installed = file.pluginsMap
    /\ call = [p \in Procs |-> IdleCall]
    /\ child = [p \in Procs |-> [op \in Ops |-> NoChild]]
    /\ ncalls = 0
    /\ probe = NoProbe
    /\ request = NoRequest
    /\ cache = NoCache
    /\ plugin = NoPlugins

(***************************************************************************)
(* readState                                                               *)
(***************************************************************************)
\* (variant: the mtime is kept when the file does not parse as JSON)
readState_KeepsTime(f) ==
    IF f.kind = "json"
    THEN [hash |-> f.hash, hasTime |-> TRUE, timeMs |-> f.mtime,
          hasMap |-> f.hasMap, pluginsMap |-> f.pluginsMap]
    ELSE IF f.kind = "garbage" THEN [EmptyState EXCEPT !.hasTime = TRUE, !.timeMs = f.mtime]
    ELSE EmptyState

\* lines 121-147
readState(f) ==
    IF f.kind = "json"
    THEN [hash |-> f.hash, hasTime |-> TRUE, timeMs |-> f.mtime,
          hasMap |-> f.hasMap, pluginsMap |-> f.pluginsMap]
    ELSE EmptyState

(***************************************************************************)
(* assertInstalled: the decisions                                          *)
(***************************************************************************)
\* (variant: the age limit left out of the comparison)
IsFresh_NoMaxAge(state, t, maxAge) == state.hasTime /\ state.timeMs >= t

\* state.timeMs !== undefined && state.timeMs >= Date.now() - maxAge
IsFresh(state, t, maxAge) == state.hasTime /\ state.timeMs >= t - maxAge

\* (variant: the hash comparison never succeeds)
SameHash_Never(state, hash) == FALSE

\* state.hash === hash
SameHash(state, hash) == state.hash = hash

\* The entries left in toRemove and toInstall after the loop that deletes
\* the entries with the same name and version from both maps.
\* (variants: names compared without their versions; nothing deleted from toInstall)
ToRemove_ByName(old, new) == SelectSeq(old, LAMBDA e : Lookup(new, e[1]) = {})
ToInstall_All(old, new) == new

ToRemove(old, new) == SelectSeq(old, LAMBDA e : Lookup(new, e[1]) # {e[2]})
ToInstall(old, new) == SelectSeq(new, LAMBDA e : Lookup(old, e[1]) # {e[2]})

isS3URL(ref) == StartsWith(ref, <<"s", "3", ":">>)

\* path.join(tmpStorage, randomBytes(16).toString('hex') + '.tgz'): one
\* fresh path per download, here numbered by the entry.
DigitOf(n) == AsciiOrder[CharCode("0") + n]
LocalPath(n) == <<"/", "t", "/">> \o <<DigitOf(n)>> \o <<".", "t", "g", "z">>

Return(c, names) ==
    [c EXCEPT !.pc = "done", !.outcome = [kind |-> "return", names |-> names, err |-> ""]]
Throw(c, err) ==
    [c EXCEPT !.pc = "done", !.outcome = [kind |-> "throw", names |-> <<>>, err |-> err]]

\* catch (err) { debug(...); return [] }: err is what debug() logs
Catch(c, err) ==
    [c EXCEPT !.pc = "done", !.outcome = [kind |-> "return", names |-> <<>>, err |-> err]]

Logged(c, ev, op, args, code) ==
    [c EXCEPT !.log = Append(@, [ev |-> ev, op |-> op, args |-> args, code |-> code])]

(***************************************************************************)
(* asyncSpawn / npmPkgExec                                                 *)
(***************************************************************************)
\* spawn('npm', [op, ...pkgArray]): a running subprocess with nothing captured
Spawned(args, entries) ==
    [status |-> "running", args |-> args, entries |-> entries, code |-> 0, pending |-> 0, out |-> 0]

\* (variant: settling on 'exit', when output may still be in the pipes)
Closes_OnExit(ch) == ch.status = "exited"

\* The promise of asyncSpawn settles on 'close': the process has exited and
\* its stdout and stderr have ended, so every chunk is in out.
Closes(ch) == ch.status = "exited" /\ ch.pending = 0

\* What npm leaves in <tmpDir>/plugins after handling the entries in done.
ApplyNpm(op, pkgs, done) ==
    IF op = "remove"
    THEN SelectSeq(pkgs, LAMBDA e : e[1] \notin KeySet(done))
    ELSE SelectSeq(pkgs, LAMBDA e : e[1] \notin KeySet(done)) \o done

(***************************************************************************)
(* toInstallKeys                                                           *)
(***************************************************************************)
\* The for loop up to its next suspension: entries that are not s3: are
\* pushed at once; an s3: entry is awaited ("download"); at the end of the
\* map the keys are complete ("spawn").
RECURSIVE toInstallKeys(_)
\* one round of the loop, v being the outcome of validatePluginDefinition
InstallKey(c, v) ==
    IF ~v.ok THEN [status |-> "throw", c |-> c, err |-> v.err]
    ELSE IF isS3URL(v.ref) THEN [status |-> "download", c |-> c, err |-> ""]
    ELSE toInstallKeys([c EXCEPT !.installKeys = Append(@, v.ref), !.index = @ + 1])

toInstallKeys(c) ==
    IF c.index >= Len(c.toInstall) THEN [status |-> "spawn", c |-> c, err |-> ""]
    ELSE InstallKey(c, validatePluginDefinition(c.toInstall[c.index + 1][1],
                                                c.toInstall[c.index + 1][2],
                                                c.index, c.strict))

(***************************************************************************)
(* assertInstalled: the steps of the try block                             *)
(***************************************************************************)
\* if (toInstall.size > 0) await npmPkgExec(await toInstallKeys(...), 'install', ...)
\* from the current entry of toInstall on
InstallWith(r, ch) ==
    IF r.status = "throw" THEN [call |-> Catch(r.c, r.err), child |-> ch]
    ELSE IF r.status = "download"
    THEN [call |-> Logged([r.c EXCEPT !.pc = "download"], "fetch", "s3",
                          <<r.c.toInstall[r.c.index + 1][2]>>, 0),
          child |-> ch]
    ELSE [call |-> Logged([r.c EXCEPT !.pc = "install"], "spawn", "install", r.c.installKeys, 0),
          child |-> [ch EXCEPT !["install"] = Spawned(r.c.installKeys, r.c.toInstall)]]

StartInstall(c, ch) == InstallWith(toInstallKeys(c), ch)

\* after the remove step: the install step, then writeFile
AfterRemove(c, ch) ==
    IF c.toInstall # <<>> THEN StartInstall(c, ch)
    ELSE [call |-> [c EXCEPT !.pc = "writeFile"], child |-> ch]

\* (variant: npm remove is run without the size test)
AfterMkdir_AlwaysRemove(c, ch) ==
    [call |-> Logged([c EXCEPT !.pc = "remove"], "spawn", "remove", Keys(c.toRemove), 0),
     child |-> [ch EXCEPT !["remove"] = Spawned(Keys(c.toRemove), c.toRemove)]]

\* after mkdir: if (toRemove.size > 0) await npmPkgExec(toRemove.keys(), 'remove', ...)
AfterMkdir(c, ch) ==
    IF c.toRemove # <<>>
    THEN [call |-> Logged([c EXCEPT !.pc = "remove"], "spawn", "remove", Keys(c.toRemove), 0),
          child |-> [ch EXCEPT !["remove"] = Spawned(Keys(c.toRemove), c.toRemove)]]
    ELSE AfterRemove(c, ch)

\* (variant: the exit code is not looked at)
AfterNpm_IgnoreCode(c, ch, op, code) ==
    IF c.pc # op THEN [call |-> c, child |-> ch]
    ELSE IF op = "remove" THEN AfterRemove(c, ch)
    ELSE [call |-> [c EXCEPT !.pc = "writeFile"], child |-> ch]

\* the continuation of `await npmPkgExec(..., op, ...)` once it settled
AfterNpm(c, ch, op, code) ==
    IF c.pc # op THEN [call |-> c, child |-> ch]
    ELSE IF code # 0 THEN [call |-> Catch(c, "NpmError"), child |-> ch]
    ELSE IF op = "remove" THEN AfterRemove(c, ch)
    ELSE [call |-> [c EXCEPT !.pc = "writeFile"], child |-> ch]

\* lines 179-188: the delta is known
WithDelta(c, t) ==
    IF c.toInstall = <<>> /\ c.toRemove = <<>>
    THEN [c EXCEPT !.pc = "utimes", !.timeMs = t]
    ELSE [c EXCEPT !.pc = "mkdir"]

\* lines 164-178: v is what validatePluginDefinitions returned or threw
WithValidated(c, v, t) ==
    IF ~v.ok THEN Throw(c, v.err)
    ELSE IF SameHash(c.state, Stringify(v.map)) THEN Return(c, Keys(c.state.pluginsMap))
    ELSE WithDelta([c EXCEPT !.pluginsMap = v.map,
                             !.hash = Stringify(v.map),
                             !.toRemove = ToRemove(c.state.pluginsMap, v.map),
                             !.toInstall = ToInstall(c.state.pluginsMap, v.map)], t)

\* lines 164-187: validation, the hash comparison and the delta
Validated(c, t) ==
    WithValidated([c EXCEPT !.validated = TRUE],
                  validatePluginDefinitions(c.plugins, c.strict), t)

(***************************************************************************)
(* Actions                                                                 *)
(***************************************************************************)
\* the frame and the subprocesses of invocation p become r.call and r.child
Resume(p, r) ==
    /\ call' = [call EXCEPT ![p] = r.call]
    /\ child' = [child EXCEPT ![p] = r.child]

Tick ==
    /\ now < MaxTime
    /\ now' = now + 1
    /\ UNCHANGED <<file, installed, call, child, ncalls, probe, request, cache, plugin>>

\* loadPlugins(plugins, opts): assertInstalled starts with readState.
LoadPlugins(p, plugins, opts) ==
    /\ call[p].pc \in {"idle", "done"}
    /\ \A op \in Ops : child[p][op].status \notin {"running", "exited"}
    /\ ncalls < MaxCalls
    /\ ncalls' = ncalls + 1
    /\ call' = [call EXCEPT ![p] = [IdleCall EXCEPT !.pc = "readState",
                                                    !.plugins = plugins,
                                                    !.maxAge = opts.maxAge,
                                                    !.strict = opts.strict,
                                                    !.failQuietly = opts.failQuietly,
                                                    !.fileAtStart = file]]
    /\ child' = [child EXCEPT ![p] = [op \in Ops |-> NoChild]]
    /\ UNCHANGED <<now, file, installed, probe, request, cache, plugin>>

\* lines 157-163: readState resolves, then the freshness test
ReadState(p) ==
    /\ call[p].pc = "readState"
    /\ LET state == readState(file)
           c == [call[p] EXCEPT !.state = state, !.max = now - call[p].maxAge]
       IN  call' = [call EXCEPT ![p] =
                IF ~state.hasMap THEN Throw(c, "TypeError")
                ELSE IF IsFresh(state, now, c.maxAge) THEN Return(c, Keys(state.pluginsMap))
                ELSE [c EXCEPT !.pc = "toPromise"]]
    /\ UNCHANGED <<now, file, installed, child, ncalls, probe, request, cache, plugin>>

\* lines 164-180: toPromise(plugins) resolves
Validate(p) ==
    /\ call[p].pc = "toPromise"
    /\ call' = [call EXCEPT ![p] = Validated(call[p], now)]
    /\ UNCHANGED <<now, file, installed, child, ncalls, probe, request, cache, plugin>>

\* lines 181-186: utimes settles (its error is logged and dropped)
Utimes(p) ==
    /\ call[p].pc = "utimes"
    /\ file' = IF file.kind = "absent" THEN file ELSE [file EXCEPT !.mtime = call[p].timeMs]
    /\ call' = [call EXCEPT ![p] = Return(call[p], Keys(call[p].pluginsMap))]
    /\ UNCHANGED <<now, installed, child, ncalls, probe, request, cache, plugin>>

\* line 189: mkdir settles; on success the first npm step starts
Mkdir(p, ok) ==
    /\ call[p].pc = "mkdir"
    /\ Resume(p, IF ok THEN AfterMkdir(call[p], child[p])
                 ELSE [call |-> Catch(call[p], "MkdirError"), child |-> child[p]])
    /\ UNCHANGED <<now, file, installed, ncalls, probe, request, cache, plugin>>

\* the subprocess writes a chunk to stdout or stderr
ChildWrite(p, op) ==
    /\ child[p][op].status = "running"
    /\ child[p][op].pending + child[p][op].out < MaxChunks
    /\ child' = [child EXCEPT ![p][op].pending = @ + 1]
    /\ UNCHANGED <<now, file, installed, call, ncalls, probe, request, cache, plugin>>

\* lines 64-65: a 'data' event, the chunk is pushed to out
ChildData(p, op) ==
    /\ child[p][op].status \in {"running", "exited"}
    /\ child[p][op].pending > 0
    /\ child' = [child EXCEPT ![p][op].pending = @ - 1, ![p][op].out = @ + 1]
    /\ UNCHANGED <<now, file, installed, call, ncalls, probe, request, cache, plugin>>

\* npm exits with a code, having handled the entries numbered in done
\* (all of them when the code is 0, not all of them otherwise)
ChildExit(p, op, code) ==
    /\ child[p][op].status = "running"
    /\ child' = [child EXCEPT ![p][op].status = "exited", ![p][op].code = code]
    /\ \E done \in SUBSET (1..Len(child[p][op].entries)) :
          /\ code = 0 <=> done = 1..Len(child[p][op].entries)
          /\ installed' = ApplyNpm(op, installed,
                                   SelectSeq(child[p][op].entries,
                                             LAMBDA e : \E i \in done : child[p][op].entries[i] = e))
    /\ UNCHANGED <<now, file, call, ncalls, probe, request, cache, plugin>>

\* line 62: the 'close' event calls exit(exitCode), which settles the promise
ChildClose(p, op) ==
    /\ Closes(child[p][op])
    /\ Resume(p, AfterNpm(Logged(call[p], "close", op, <<>>, child[p][op].code),
                          [child[p] EXCEPT ![op].status = "closed"],
                          op, child[p][op].code))
    /\ UNCHANGED <<now, file, installed, ncalls, probe, request, cache, plugin>>

\* line 61: the 'error' event (npm could not be spawned) calls exit(null, err)
ChildError(p, op) ==
    /\ child[p][op].status = "running"
    /\ child[p][op].out = 0 /\ child[p][op].pending = 0
    /\ Resume(p, AfterNpm(Logged(call[p], "error", op, <<>>, 1),
                          [child[p] EXCEPT ![op].status = "failed"], op, 1))
    /\ UNCHANGED <<now, file, installed, ncalls, probe, request, cache, plugin>>

\* lines 379-381: the download of the current s3: entry settles
Download(p, ok) ==
    /\ call[p].pc = "download"
    /\ Resume(p, IF ok
                 THEN StartInstall([Logged(call[p], "fetched", "s3", <<LocalPath(call[p].index)>>, 0)
                                       EXCEPT !.installKeys = Append(@, LocalPath(call[p].index)),
                                              !.index = @ + 1], child[p])
                 ELSE [call |-> Catch(Logged(call[p], "fetchFailed", "s3", <<>>, 1), "DownloadError"),
                       child |-> child[p]])
    /\ UNCHANGED <<now, file, installed, ncalls, probe, request, cache, plugin>>

\* (variant: the entries of the file that the new map does not name are kept)
Written_Merged(f, c, t) ==
    StateFile(c.hash,
              SelectSeq(f.pluginsMap, LAMBDA e : e[1] \notin KeySet(c.pluginsMap)) \o c.pluginsMap,
              t)

\* lines 195-199: writeFile(state.path, JSON.stringify({ hash, pluginsMap }))
\* replaces what the file f held
Written(f, c, t) == StateFile(c.hash, c.pluginsMap, t)

\* lines 195-200: writeFile settles.  A failed write leaves the file as it
\* was or truncated.
WriteFile(p, res) ==
    /\ call[p].pc = "writeFile"
    /\ LET c == call[p]
       IN  /\ file' = IF res = "ok" THEN Written(file, c, now)
                      ELSE IF res = "truncated" THEN GarbageFile(now)
                      ELSE file
           /\ call' = [call EXCEPT ![p] = IF res = "ok" THEN Return(c, Keys(c.pluginsMap))
                                          ELSE Catch(c, "WriteError")]
    /\ UNCHANGED <<now, installed, child, ncalls, probe, request, cache, plugin>>

\* loadPlugins(plugins, opts) is called again with the arguments of the
\* call before it, whose try block ended in the catch
LoadPluginsAgain(p) ==
    /\ call[p].pc = "done"
    /\ call[p].outcome.kind = "return" /\ call[p].outcome.err # ""
    /\ \A op \in Ops : child[p][op].status \notin {"running", "exited"}
    /\ ncalls < MaxCalls
    /\ ncalls' = ncalls + 1
    /\ call' = [call EXCEPT ![p] = [IdleCall EXCEPT !.pc = "readState",
                                                    !.plugins = call[p].plugins,
                                                    !.maxAge = call[p].maxAge,
                                                    !.strict = call[p].strict,
                                                    !.failQuietly = call[p].failQuietly,
                                                    !.retry = TRUE,
                                                    !.fileAtStart = file]]
    /\ child' = [child EXCEPT ![p] = [op \in Ops |-> NoChild]]
    /\ UNCHANGED <<now, file, installed, probe, request, cache, plugin>>

\* what a call does once it has started, apart from the output of npm
Advance(p) ==
    \/ ReadState(p)
    \/ Validate(p)
    \/ Utimes(p)
    \/ \E ok \in BOOLEAN : Mkdir(p, ok)
    \/ \E op \in Ops, code \in {0, 1} : ChildExit(p, op, code)
    \/ \E op \in Ops : ChildClose(p, op)
    \/ \E op \in Ops : ChildError(p, op)
    \/ \E ok \in BOOLEAN : Download(p, ok)
    \/ \E res \in {"ok", "failed", "truncated"} : WriteFile(p, res)

Run(p) ==
    \/ Advance(p)
    \/ \E op \in Ops : ChildWrite(p, op)
    \/ \E op \in Ops : ChildData(p, op)

Step(p) ==
    \/ \E a \in Calls : LoadPlugins(p, a.plugins, a.opts)
    \/ Run(p)

Next == Tick \/ \E p \in Callers : Step(p)

Spec == Init /\ [][Next]_vars

(***************************************************************************)
(* Two invocations on one <tmpDir> at the same time, each making one call; *)
(* npm prints nothing.                                                     *)
(***************************************************************************)
\* invocation p makes its call
Invoke(p, plugins, opts) ==
    /\ call[p].pc = "idle"
    /\ LoadPlugins(p, plugins, opts)

RaceNext ==
    \/ Tick
    \/ \E p \in Procs, a \in RaceCalls : Invoke(p, a.plugins, a.opts)
    \/ \E p \in Procs : Advance(p)

RaceSpec == Init /\ [][RaceNext]_vars

(***************************************************************************)
(* One invocation at a time, a failed call being repeated.                 *)
(***************************************************************************)
RetryNext ==
    \/ Tick
    \/ \E p \in Callers, a \in RaceCalls : LoadPlugins(p, a.plugins, a.opts)
    \/ \E p \in Callers : LoadPluginsAgain(p)
    \/ \E p \in Callers : Run(p)

RetrySpec == Init /\ [][RetryNext]_vars

(***************************************************************************)
(* The validator called directly (validatePluginDefinitions is exported;   *)
(* validatePluginDefinition is what it and toInstallKeys call per entry).  *)
(***************************************************************************)
ValidatorInit ==
    /\ now = 0
    /\ file = NoFile
    /\ installed = <<>>
    /\ call = [p \in Procs |-> IdleCall]
    /\ child = [p \in Procs |-> [op \in Ops |-> NoChild]]
    /\ ncalls = 0
    /\ probe \in {[NoProbe EXCEPT !.pc = "ready", !.input = i, !.strict = st] :
                     i \in ProbeInputs, st \in BOOLEAN}
    /\ request = NoRequest
    /\ cache = NoCache
    /\ plugin = NoPlugins

\* validatePluginDefinition(key, value, 0, strict) for the entry of a one-entry input
ValidateDefinition ==
    /\ probe.pc = "ready"
    /\ Len(probe.input.entries) = 1
    /\ probe' = [probe EXCEPT !.pc = "one",
                              !.one = validatePluginDefinition(probe.input.entries[1][1],
                                                               probe.input.entries[1][2],
                                                               0, probe.strict)]
    /\ UNCHANGED <<now, file, installed, call, child, ncalls, request, cache, plugin>>

\* validatePluginDefinitions(input, strict)
ValidateDefinitions ==
    /\ probe.pc = "ready"
    /\ probe' = [probe EXCEPT !.pc = "all",
                              !.all = validatePluginDefinitions(probe.input, probe.strict)]
    /\ UNCHANGED <<now, file, installed, call, child, ncalls, request, cache, plugin>>

\* validatePluginDefinition(key, reference, 0, strict), where reference is
\* what validatePluginDefinition(key, value, 0, strict) has returned
ValidateAgain ==
    /\ probe.pc = "one"
    /\ probe.one.ok
    /\ probe' = [probe EXCEPT !.pc = "again",
                              !.again = validatePluginDefinition(probe.input.entries[1][1],
                                                                 probe.one.ref,
                                                                 0, probe.strict)]
    /\ UNCHANGED <<now, file, installed, call, child, ncalls, request, cache, plugin>>

ValidatorNext == ValidateDefinition \/ ValidateDefinitions \/ ValidateAgain

ValidatorSpec == ValidatorInit /\ [][ValidatorNext]_vars

(***************************************************************************)
(* createMatcher and the matcher it returns, called directly               *)
(* (src/test/util.test.ts), and normalize.                                 *)
(***************************************************************************)
ResolverInit ==
    /\ now = 0
    /\ file = NoFile
    /\ installed = <<>>
    /\ call = [p \in Procs |-> IdleCall]
    /\ child = [p \in Procs |-> [op \in Ops |-> NoChild]]
    /\ ncalls = 0
    /\ probe = NoProbe
    /\ request \in {[NoRequest EXCEPT !.pc = "ready", !.pkg = pkg, !.name = name, !.type = type] :
                       pkg \in ResolverPkgs, name \in ResolverNames, type \in Types}
    /\ cache = NoCache
    /\ plugin = NoPlugins

\* const matcher = createMatcher('/root', pkg)
CreateMatcher ==
    /\ request.pc = "ready"
    /\ request' = [request EXCEPT !.pc = "created",
                                  !.matcher = createMatcher(PkgPth, request.pkg)]
    /\ UNCHANGED <<now, file, installed, call, child, ncalls, probe, cache, plugin>>

\* matcher(name, type)
CallMatch ==
    /\ request.pc = "created"
    /\ request' = [request EXCEPT !.pc = "done",
                                  !.result = CallMatcher(request.matcher, request.name,
                                                         request.type)]
    /\ UNCHANGED <<now, file, installed, call, child, ncalls, probe, cache, plugin>>

\* normalize(name)
Normalize ==
    /\ request.pc # "none"
    /\ ~request.hasNormalized
    /\ request' = [request EXCEPT !.hasNormalized = TRUE,
                                  !.normalized = normalize(Str(request.name))]
    /\ UNCHANGED <<now, file, installed, call, child, ncalls, probe, cache, plugin>>

\* normalize(normalize(name))
NormalizeAgain ==
    /\ request.hasNormalized
    /\ ~request.hasAgain
    /\ request' = [request EXCEPT !.hasAgain = TRUE,
                                  !.again = normalize(Str(request.normalized))]
    /\ UNCHANGED <<now, file, installed, call, child, ncalls, probe, cache, plugin>>

\* createPatternMatcher(pattern)(name)
MatchPattern(pattern) ==
    /\ request.pc = "ready"
    /\ request' = [request EXCEPT !.pc = "pattern",
                                  !.pattern = pattern,
                                  !.capture = createPatternMatcher(pattern, request.name)]
    /\ UNCHANGED <<now, file, installed, call, child, ncalls, probe, cache, plugin>>

ResolverNext ==
    \/ CreateMatcher
    \/ CallMatch
    \/ Normalize
    \/ NormalizeAgain
    \/ \E pattern \in Patterns : MatchPattern(pattern)

ResolverSpec == ResolverInit /\ [][ResolverNext]_vars

(***************************************************************************)
(* getMatcher and its WeakMap (src/util.ts:211-220).  The manifest objects *)
(* are PkgObjects, a matcher is its index in cache.matchers (0: undefined).*)
(***************************************************************************)
\* (variant: the matcher created at every call)
getMatcher_NoCache(c, depPath, pkg) ==
    [c EXCEPT !.matchers = Append(@, createMatcher(depPath, c.pkgs[pkg])),
              !.map[pkg] = Len(c.matchers) + 1,
              !.calls = Append(@, [pkg |-> pkg, depPath |-> depPath,
                                   returned |-> Len(c.matchers) + 1, created |-> TRUE,
                                   called |-> FALSE, result |-> NoImport])]

\* lines 213-220; calls records what each call was given, returned and did
getMatcher(c, depPath, pkg) ==
    IF c.map[pkg] = 0
    THEN [c EXCEPT !.matchers = Append(@, createMatcher(depPath, c.pkgs[pkg])),
                   !.map[pkg] = Len(c.matchers) + 1,
                   !.calls = Append(@, [pkg |-> pkg, depPath |-> depPath,
                                        returned |-> Len(c.matchers) + 1, created |-> TRUE,
                                        called |-> FALSE, result |-> NoImport])]
    ELSE [c EXCEPT !.calls = Append(@, [pkg |-> pkg, depPath |-> depPath,
                                        returned |-> c.map[pkg], created |-> FALSE,
                                        called |-> FALSE, result |-> NoImport])]

CacheInit ==
    /\ now = 0
    /\ file = NoFile
    /\ installed = <<>>
    /\ call = [p \in Procs |-> IdleCall]
    /\ child = [p \in Procs |-> [op \in Ops |-> NoChild]]
    /\ ncalls = 0
    /\ probe = NoProbe
    /\ request = NoRequest
    /\ cache \in {[NoCache EXCEPT !.pkgs = pkgs, !.map = [o \in PkgObjects |-> 0]] :
                     pkgs \in [PkgObjects -> CachePkgs]}
    /\ plugin = NoPlugins

GetMatcher(depPath, pkg) ==
    /\ Len(cache.calls) < MaxGets
    /\ cache' = getMatcher(cache, depPath, pkg)
    /\ UNCHANGED <<now, file, installed, call, child, ncalls, probe, request, plugin>>

\* the matcher that call i of getMatcher returned is called: matcher(name, type)
MatchReturned(i, name, type) ==
    /\ i \in 1..Len(cache.calls)
    /\ ~cache.calls[i].called
    /\ cache' = [cache EXCEPT !.calls[i].called = TRUE,
                              !.calls[i].result =
                                  CallMatcher(cache.matchers[cache.calls[i].returned], name, type)]
    /\ UNCHANGED <<now, file, installed, call, child, ncalls, probe, request, plugin>>

CacheNext ==
    \/ \E depPath \in DepPaths, pkg \in PkgObjects : GetMatcher(depPath, pkg)
    \/ \E i \in 1..MaxGets, name \in CacheNames, type \in Types : MatchReturned(i, name, type)

CacheSpec == CacheInit /\ [][CacheNext]_vars

(***************************************************************************)
(* Plugin and prepare (src/index.ts:245-288).  A promise of a Plugin is    *)
(* its index in promises (0: undefined): the promise of loadPackage        *)
(* ("pkg") or the one of package().then(loadData) ("data", src being the   *)
(* promise it waits for).  plugin.files[h] is what the package.json of     *)
(* handle h holds.                                                         *)
(***************************************************************************)
\* enoent: readFile found no file; ran: loadData was called
Pending(kind, src) ==
    [kind |-> kind, status |-> "pending", value |-> 0, src |-> src,
     enoent |-> FALSE, ran |-> FALSE]

\* lines 258-265 and loadPackage up to its readFile
package(pl, force) ==
    IF pl._pkg = 0 \/ force # "true"
    THEN [pl EXCEPT !.promises = Append(@, Pending("pkg", 0)),
                    !._pkg = Len(pl.promises) + 1,
                    !.reads = @ + 1]
    ELSE pl

\* the promise .then(pkg => loadData(...)) returns, memoized
ThenLoadData(pl) ==
    [pl EXCEPT !.promises = Append(@, Pending("data", pl._pkg)),
               !._data = Len(pl.promises) + 1]

\* lines 268-276
data(pl, force) ==
    IF pl._data = 0 \/ force # "true"
    THEN ThenLoadData(package(pl, force))
    ELSE pl

StatusOf(pl, promise) == IF promise = 0 THEN "undefined" ELSE pl.promises[promise].status

\* what a call found memoized, what it returned, and the reads it started
WithCall(before, after, op, force, memo, returned) ==
    [after EXCEPT !.calls = Append(@, [op |-> op, force |-> force,
                                       memo |-> memo, memoStatus |-> StatusOf(before, memo),
                                       returned |-> returned,
                                       reads |-> after.reads - before.reads,
                                       promises |-> Len(after.promises) - Len(before.promises)])]

\* (variant: the manifest is read when the Plugin is constructed)
Plugin_Eager(name, path) == package([NoPlugin EXCEPT !.name = name, !.path = path], "undefined")

\* lines 252-255: new Plugin(name, path)
Plugin(name, path) == [NoPlugin EXCEPT !.name = name, !.path = path]

\* line 280: path.join(tmpDir, 'plugins', 'lib', 'node_modules')
PluginBase(tmpDir) ==
    tmpDir \o <<"/", "p", "l", "u", "g", "i", "n", "s", "/", "l", "i", "b", "/",
                "n", "o", "d", "e", "_", "m", "o", "d", "u", "l", "e", "s">>

\* lines 279-288: one Plugin per name, in the order of names
prepare(tmpDir, names) ==
    [i \in 1..Len(names) |-> Plugin(names[i], pathResolve(PluginBase(tmpDir), names[i]))]

\* the calls of package() and data() made on the handles
RECURSIVE CallsMade(_)
CallsMade(handles) ==
    IF handles = <<>> THEN 0 ELSE Len(Head(handles).calls) + CallsMade(Tail(handles))

PluginInit ==
    /\ now = 0
    /\ file = NoFile
    /\ installed = <<>>
    /\ call = [p \in Procs |-> IdleCall]
    /\ child = [p \in Procs |-> [op \in Ops |-> NoChild]]
    /\ ncalls = 0
    /\ probe = NoProbe
    /\ request = NoRequest
    /\ cache = NoCache
    /\ plugin \in UNION {{[NoPlugins EXCEPT !.pc = "ready", !.names = names, !.files = files] :
                               files \in [1..Len(names) -> PackageFiles]} : names \in NameLists}

\* lines 294-295: assertInstalled has returned names; return await prepare(...)
Prepare ==
    /\ plugin.pc = "ready"
    /\ plugin' = [plugin EXCEPT !.pc = "prepared",
                                !.handles = prepare(DEFAULT_TMP_DIR, plugin.names)]
    /\ UNCHANGED <<now, file, installed, call, child, ncalls, probe, request, cache>>

\* plugins[name].package({ force })
Package(h, force) ==
    /\ h \in 1..Len(plugin.handles)
    /\ CallsMade(plugin.handles) < MaxOps
    /\ plugin' = [plugin EXCEPT !.handles[h] =
                     WithCall(@, package(@, force), "package", force,
                              @._pkg, package(@, force)._pkg)]
    /\ UNCHANGED <<now, file, installed, call, child, ncalls, probe, request, cache>>

\* plugins[name].data({ force })
Data(h, force) ==
    /\ h \in 1..Len(plugin.handles)
    /\ CallsMade(plugin.handles) < MaxOps
    /\ plugin' = [plugin EXCEPT !.handles[h] =
                     WithCall(@, data(@, force), "data", force,
                              @._data, data(@, force)._data)]
    /\ UNCHANGED <<now, file, installed, call, child, ncalls, probe, request, cache>>

\* lines 241-242: readFile and JSON.parse of a loadPackage end; readFile
\* rejects when there is no package.json
ReadFile(h, promise, ok) ==
    /\ h \in 1..Len(plugin.handles)
    /\ promise \in 1..Len(plugin.handles[h].promises)
    /\ plugin.handles[h].promises[promise] = Pending("pkg", 0)
    /\ ok => plugin.files[h] # 0
    /\ plugin' = [plugin EXCEPT
                     !.handles[h].promises[promise].status = IF ok THEN "fulfilled" ELSE "rejected",
                     !.handles[h].promises[promise].value = IF ok THEN plugin.files[h] ELSE 0,
                     !.handles[h].promises[promise].enoent = (plugin.files[h] = 0)]
    /\ UNCHANGED <<now, file, installed, call, child, ncalls, probe, request, cache>>

\* lines 272 and 232-236: the manifest promise has settled; loadData runs
\* when it is fulfilled, and its import or require ends
LoadData(h, promise, ok) ==
    /\ h \in 1..Len(plugin.handles)
    /\ promise \in 1..Len(plugin.handles[h].promises)
    /\ plugin.handles[h].promises[promise].kind = "data"
    /\ plugin.handles[h].promises[promise].status = "pending"
    /\ plugin.handles[h].promises[plugin.handles[h].promises[promise].src].status # "pending"
    /\ plugin' =
          IF plugin.handles[h].promises[plugin.handles[h].promises[promise].src].status = "rejected"
          THEN [plugin EXCEPT !.handles[h].promises[promise].status = "rejected"]
          ELSE [plugin EXCEPT
                   !.handles[h].loads = @ + 1,
                   !.handles[h].promises[promise].ran = TRUE,
                   !.handles[h].promises[promise].status = IF ok THEN "fulfilled" ELSE "rejected",
                   !.handles[h].promises[promise].value =
                       IF ok
                       THEN plugin.handles[h].promises[plugin.handles[h].promises[promise].src].value
                       ELSE 0]
    /\ UNCHANGED <<now, file, installed, call, child, ncalls, probe, request, cache>>

\* the package of handle h is installed: its package.json appears
WritePackage(h, manifest) ==
    /\ h \in 1..Len(plugin.handles)
    /\ manifest # plugin.files[h]
    /\ plugin' = [plugin EXCEPT !.files[h] = manifest]
    /\ UNCHANGED <<now, file, installed, call, child, ncalls, probe, request, cache>>

PluginNext ==
    \/ Prepare
    \/ \E h \in Handles, force \in Forces : Package(h, force)
    \/ \E h \in Handles, force \in Forces : Data(h, force)
    \/ \E h \in Handles, promise \in 1..(2 * MaxOps), ok \in BOOLEAN : ReadFile(h, promise, ok)
    \/ \E h \in Handles, promise \in 1..(2 * MaxOps), ok \in BOOLEAN : LoadData(h, promise, ok)
    \/ \E h \in Handles, manifest \in Manifests : WritePackage(h, manifest)

PluginSpec == PluginInit /\ [][PluginNext]_vars

(***************************************************************************)
(* Properties                                                              *)
(***************************************************************************)
Spawns(c) == SelectSeq(c.log, LAMBDA e : e.ev = "spawn")
Returned(c, names) == c.pc = "done" /\ c.outcome = [kind |-> "return", names |-> names, err |-> ""]

\* The state file is a state record (JSON with a pluginsMap).
IsRecord(f) == f.kind = "json" /\ f.hasMap
\* The time of the freshness test of a call that is past readState.
CheckedAt(c) == c.max + c.maxAge
\* The persisted record is within the freshness window at the test.
InWindow(c) == IsRecord(c.fileAtStart) /\ CheckedAt(c) - c.fileAtStart.mtime < c.maxAge
PastReadState(c) == c.pc \notin {"idle", "readState"}

\* The entries of an object, as a set.
EntrySet(es) == {es[i] : i \in 1..Len(es)}

MapA == <<<<A, V123>>>>
MapAB == <<<<A, V123>>, <<B, V200>>>>
RefA == <<"a", "@", "1", ".", "2", ".", "3">>
RefB == <<"b", "@", "2", ".", "0", ".", "0">>

\* C1: a call whose persisted state record has a timestamp with
\* now - timestamp < maxAge returns exactly the names of the persisted map,
\* without validating the desired spec and without spawning npm, whatever
\* the desired spec is.
C1_FastPath ==
    \A p \in Procs :
        LET c == call[p]
        IN  (PastReadState(c) /\ InWindow(c))
            => /\ Returned(c, Keys(c.fileAtStart.pluginsMap))
               /\ ~c.validated
               /\ c.log = <<>>

\* a fast-path return for an invalid desired spec over a non-empty state
C1_Witness ==
    \E p \in Procs :
        /\ call[p].pc = "done" /\ InWindow(call[p])
        /\ call[p].plugins = Obj(<<<<A, VStar>>>>)
        /\ call[p].fileAtStart.pluginsMap # <<>>
        /\ call[p].outcome.names = <<A>>

\* C2: from no state file, loadPlugins({a: '1.2.3'}) spawns npm only as one
\* `install a@1.2.3` (no remove) and, when no step fails, writes the state
\* record and returns ['a']; a following call with the same spec within the
\* freshness window returns ['a'] and spawns nothing.
C2_FirstInstallThenFresh ==
    \A p \in Procs :
        LET c == call[p]
        IN  /\ (PastReadState(c) /\ c.fileAtStart = NoFile /\ c.plugins = Obj(MapA))
               => /\ Len(Spawns(c)) <= 1
                  /\ \A i \in 1..Len(Spawns(c)) :
                        Spawns(c)[i].op = "install" /\ Spawns(c)[i].args = <<RefA>>
                  /\ (c.pc = "done" /\ c.outcome.err = "")
                     => /\ Returned(c, <<A>>)
                        /\ Len(Spawns(c)) = 1
                        /\ IsRecord(file) /\ file.hash = Stringify(MapA)
                        /\ file.pluginsMap = MapA
            /\ (PastReadState(c) /\ c.plugins = Obj(MapA) /\ InWindow(c)
                /\ c.fileAtStart.hash = Stringify(MapA) /\ c.fileAtStart.pluginsMap = MapA)
               => Returned(c, <<A>>) /\ c.log = <<>>

\* the second call has returned ['a'] from the record the first call wrote
C2_Witness ==
    \E p \in Procs :
        /\ ncalls = 2
        /\ call[p].pc = "done" /\ call[p].plugins = Obj(MapA)
        /\ call[p].fileAtStart = StateFile(Stringify(MapA), MapA, 0)
        /\ call[p].outcome.names = <<A>> /\ call[p].log = <<>>

\* C3: with the persisted record {a: '1.2.3'} outside the freshness window,
\* a call with {a: '1.2.3', b: '2.0.0'} spawns no remove and only
\* `install b@2.0.0`, and when no step fails writes the new record and
\* returns ['a', 'b'].
C3_InstallOnlyNew ==
    \A p \in Procs :
        LET c == call[p]
        IN  (/\ PastReadState(c) /\ ~InWindow(c) /\ c.validated
             /\ c.fileAtStart.kind = "json"
             /\ c.fileAtStart.hash = Stringify(MapA) /\ c.fileAtStart.pluginsMap = MapA
             /\ c.plugins.isObject
             /\ {c.plugins.entries[i] : i \in 1..Len(c.plugins.entries)} = {<<A, V123>>, <<B, V200>>})
            => /\ Len(Spawns(c)) <= 1
               /\ \A i \in 1..Len(Spawns(c)) :
                     Spawns(c)[i].op = "install" /\ Spawns(c)[i].args = <<RefB>>
               /\ (c.pc = "done" /\ c.outcome.err = "")
                  => /\ Returned(c, <<A, B>>)
                     /\ Len(Spawns(c)) = 1
                     /\ file.kind = "json" /\ file.hash = Stringify(MapAB)
                     /\ file.pluginsMap = MapAB

C3_Witness ==
    \E p \in Procs :
        /\ call[p].pc = "done"
        /\ call[p].fileAtStart = StateFile(Stringify(MapA), MapA, 0)
        /\ call[p].outcome.names = <<A, B>>
        /\ file.pluginsMap = MapAB
        /\ Len(call[p].log) = 2

\* The entries of a desired spec whose value is '*'.
StarEntries(input) ==
    {e \in {input.entries[i] : i \in 1..Len(input.entries)} : e[2] = VStar}
\* A '*' entry is the first invalid entry in name order.
StarIsFirstInvalid(input, strict) ==
    \E e \in StarEntries(input) :
        \A i \in 1..Len(input.entries) :
            StrLess(input.entries[i][1], e[1])
            => validatePluginDefinition(input.entries[i][1], input.entries[i][2], 0, strict).ok
ValidationErrors == {"NotAnObject", "NameWithSpace", "EmptyName", "VagueVersion", "VersionRange",
                     "VagueVersionRange", "NotVersionOrURL", "GithubWithoutCommit",
                     "UnsupportedProtocol"}

Desired(c) == validatePluginDefinitions(c.plugins, c.strict)
SameContents(f, g) == f.kind = g.kind /\ f.hasMap = g.hasMap /\ f.hash = g.hash /\ f.pluginsMap = g.pluginsMap

\* C5: a call outside the freshness window whose validated desired spec
\* has the persisted fingerprint returns the persisted names, spawns
\* nothing and leaves the contents of the state file as they were.
C5_SameFingerprint ==
    \A p \in Procs :
        LET c == call[p]
        IN  (/\ PastReadState(c) /\ c.validated /\ IsRecord(c.fileAtStart)
             /\ Desired(c).ok /\ Stringify(Desired(c).map) = c.fileAtStart.hash)
            => /\ Returned(c, Keys(c.fileAtStart.pluginsMap))
               /\ c.log = <<>>
               /\ SameContents(file, c.fileAtStart)

\* after the window expired, the spec the record was written for was passed again
C5_Witness ==
    \E p \in Procs :
        /\ call[p].pc = "done" /\ call[p].validated
        /\ call[p].fileAtStart = StateFile(Stringify(MapAB), MapAB, 0)
        /\ call[p].plugins = Obj(<<<<B, V200>>, <<A, V123>>>>)
        /\ call[p].outcome.names = <<A, B>>

\* C6 as stated: a call outside the freshness window whose desired map is
\* the persisted map leaves the state file with a timestamp not older than
\* the call's freshness test (so that a call within maxAge is fresh).
C6_TouchWhenUnchanged ==
    \A p \in Procs :
        LET c == call[p]
        IN  (/\ c.pc = "done" /\ c.validated /\ IsRecord(c.fileAtStart)
             /\ Desired(c).ok /\ Desired(c).map = c.fileAtStart.pluginsMap)
            => /\ SameContents(file, c.fileAtStart)
               /\ file.mtime >= CheckedAt(c)

\* C7: once the delta is computed, the remove set is the names of the
\* persisted map whose value is absent from or different in the desired
\* map, and the install set is the names of the desired map whose value is
\* absent from or different in the persisted map (a changed name is in
\* both, an equal one in neither).
C7_Delta ==
    \A p \in Procs :
        LET c == call[p]
            old == c.fileAtStart.pluginsMap
            new == c.pluginsMap
        IN  (c.pc \in {"utimes", "mkdir", "remove", "download", "install", "writeFile"}
             \/ (c.pc = "done" /\ c.hash # <<>>))
            => /\ EntrySet(new) = EntrySet(c.plugins.entries)
               /\ KeySet(c.toRemove) = {n \in KeySet(old) : Lookup(new, n) # Lookup(old, n)}
               /\ KeySet(c.toInstall) = {n \in KeySet(new) : Lookup(old, n) # Lookup(new, n)}
               /\ \A n \in KeySet(old) \cap KeySet(new) :
                     IF Lookup(old, n) = Lookup(new, n)
                     THEN n \notin KeySet(c.toRemove) \cup KeySet(c.toInstall)
                     ELSE n \in KeySet(c.toRemove) \cap KeySet(c.toInstall)
               /\ \A i \in 1..Len(c.toRemove) : Lookup(old, c.toRemove[i][1]) = {c.toRemove[i][2]}
               /\ \A i \in 1..Len(c.toInstall) : Lookup(new, c.toInstall[i][1]) = {c.toInstall[i][2]}

\* a changed version: a is in the remove set and in the install set
C7_Witness ==
    \E p \in Procs :
        /\ call[p].pc = "mkdir"
        /\ call[p].fileAtStart.pluginsMap = MapA
        /\ call[p].toRemove = <<<<A, V123>>>>
        /\ call[p].toInstall = <<<<A, V200>>>>

\* C8: in a call with a remove set and an install set, npm install is
\* spawned only after npm remove was spawned and has closed with all its
\* output captured; the two subprocesses never run at the same time.
C8_RemoveThenInstall ==
    \A p \in Procs :
        LET c == call[p]
            rm == child[p]["remove"]
            inst == child[p]["install"]
        IN  /\ ~(rm.status \in {"running", "exited"} /\ inst.status \in {"running", "exited"})
            /\ (inst.status # "none" /\ c.toRemove # <<>>)
               => /\ rm.status = "closed" /\ rm.code = 0 /\ rm.pending = 0
                  /\ \E i, j, k \in 1..Len(c.log) :
                        /\ i < j /\ j < k
                        /\ c.log[i].ev = "spawn" /\ c.log[i].op = "remove"
                        /\ c.log[j].ev = "close" /\ c.log[j].op = "remove"
                        /\ c.log[k].ev = "spawn" /\ c.log[k].op = "install"
            /\ (rm.status \in {"running", "exited"}) => c.pc = "remove"

\* install runs after a remove that had written output
C8_Witness ==
    \E p \in Procs :
        /\ child[p]["install"].status = "running"
        /\ child[p]["remove"].status = "closed"
        /\ child[p]["remove"].out = MaxChunks
        /\ call[p].toRemove # <<>> /\ call[p].toInstall # <<>>

\* The remove step, a download or the install step of call c failed.
InstallerFailed(c) == c.pc = "done" /\ c.outcome.err \in {"NpmError", "DownloadError"}

\* C9: the state file changes only once every npm subprocess of the call
\* has closed with code 0 (and none is outstanding); after a failed remove,
\* download or install the file has the hash, map and timestamp it had
\* before the call.
C9_WriteOnlyOnSuccess ==
    \A p \in Procs :
        LET c == call[p]
        IN  /\ (c.pc # "idle" /\ file # c.fileAtStart
                /\ ~(c.toRemove = <<>> /\ c.toInstall = <<>>))
               => /\ \A op \in Ops : child[p][op].status \in {"none", "closed"}
                  /\ \A op \in Ops : child[p][op].status = "closed" => child[p][op].code = 0
                  /\ (c.toRemove # <<>>) => child[p]["remove"].status = "closed"
                  /\ (c.toInstall # <<>>) => child[p]["install"].status = "closed"
                  /\ \A i \in 1..Len(c.log) : c.log[i].ev # "error" /\ c.log[i].code = 0
            /\ InstallerFailed(c) => file = c.fileAtStart

\* an install failed after a remove had succeeded; the record is the old one
C9_Witness ==
    \E p \in Procs :
        /\ InstallerFailed(call[p])
        /\ child[p]["remove"].status = "closed" /\ child[p]["install"].code = 1
        /\ IsRecord(file) /\ file = call[p].fileAtStart

\* C10 as stated: when a step of applying the delta fails, a call with
\* failQuietly returns an empty list and a call without it raises an
\* error wrapping the cause.
C10_FailQuietlyOrRaise ==
    \A p \in Procs :
        LET c == call[p]
        IN  (c.pc = "done" /\ c.outcome.err \in {"MkdirError", "NpmError", "DownloadError", "WriteError"})
            => IF c.failQuietly
               THEN c.outcome.kind = "return" /\ c.outcome.names = <<>>
               ELSE c.outcome.kind = "throw"

\* C11 as stated: a call that found the state file missing, not JSON, or
\* JSON without a plugin map goes on with the empty state (hash '', no
\* timestamp, no names) to validation and does not fail at reading.
C11_CorruptIsEmpty ==
    \A p \in Procs :
        LET c == call[p]
        IN  (PastReadState(c) /\ ~IsRecord(c.fileAtStart))
            => /\ c.state = EmptyState
               /\ c.pc = "toPromise" \/ c.validated

\* The value is accepted by the validator as a URL of the s3: scheme.
IsS3Reference(value) ==
    /\ ~VersionParts(value).matched
    /\ ParseURL(value).ok
    /\ ParseURL(value).protocol = <<"s", "3", ":">>

\* C12 as stated: once npm install is spawned, every entry of the install
\* set that is an s3: reference was fetched (started and completed) before
\* the spawn, and the argument npm got for it is the local path fetched.
C12_FetchBeforeInstall ==
    \A p \in Procs :
        LET c == call[p]
            inst == child[p]["install"]
        IN  /\ c.pc = "download" => inst.status = "none"
            /\ inst.status # "none"
               => \A i \in 1..Len(c.toInstall) :
                     IsS3Reference(c.toInstall[i][2])
                     => /\ inst.args[i] = LocalPath(i - 1)
                        /\ \E j, k, m \in 1..Len(c.log) :
                              /\ j < k /\ k < m
                              /\ c.log[j].ev = "fetch" /\ c.log[j].args = <<c.toInstall[i][2]>>
                              /\ c.log[k].ev = "fetched" /\ c.log[k].args = <<LocalPath(i - 1)>>
                              /\ c.log[m].ev = "spawn" /\ c.log[m].op = "install"

\* The number of events ev in the log of a call.
Events(c, ev) == Len(SelectSeq(c.log, LAMBDA e : e.ev = ev))
\* The downloads started and not yet settled.
InFlight(c) == Events(c, "fetch") - Events(c, "fetched") - Events(c, "fetchFailed")
\* The entries of the install set that toInstallKeys hands to the queue.
QueuedEntries(c) == SelectSeq(c.toInstall, LAMBDA e : isS3URL(e[2]))

\* C13 as stated: never more than 10 downloads are in flight, and the
\* downloads of an install set with two or more s3: entries are started
\* without waiting for one another: while one is in flight, all of them (up
\* to the width of the queue) have been started.
C13_ConcurrentDownloads ==
    \A p \in Procs :
        LET c == call[p]
        IN  /\ InFlight(c) <= S3_DOWNLOAD_CONCURRENCY
            /\ (InFlight(c) > 0 /\ Len(QueuedEntries(c)) >= 2
                /\ Len(QueuedEntries(c)) <= S3_DOWNLOAD_CONCURRENCY)
               => Events(c, "fetch") = Len(QueuedEntries(c))

\* C14 as stated: a call in which a download failed ends by raising an
\* error to the caller, with or without failQuietly, and has not spawned
\* npm install.
C14_FetchErrorPropagates ==
    \A p \in Procs :
        LET c == call[p]
        IN  (c.pc = "done" /\ Events(c, "fetchFailed") > 0)
            => /\ c.outcome.kind = "throw"
               /\ \A i \in 1..Len(c.log) : ~(c.log[i].ev = "spawn" /\ c.log[i].op = "install")

(***************************************************************************)
(* Properties of the validator                                             *)
(***************************************************************************)
ProbeEntries == probe.input.entries
ProbeName == ProbeEntries[1][1]
ProbeValue == ProbeEntries[1][2]
ValidName(n) == n # <<>> /\ \A i \in 1..Len(n) : n[i] \notin {" ", "\t", "\n"}
NameAtValue(n, v) == n \o <<"@">> \o v
Ascending(keys) == \A i \in 1..(Len(keys) - 1) : StrLess(keys[i], keys[i + 1])

\* C15 as stated: the mapping validatePluginDefinitions returns has the
\* entries of its input, its keys are in ascending lexical order, and its
\* serialization is the one of the mapping returned for the same entries
\* passed in sorted order.
C15_SortedMapping ==
    (probe.pc = "all" /\ probe.all.ok)
    => /\ EntrySet(probe.all.map) = EntrySet(ProbeEntries)
       /\ Len(probe.all.map) = Len(ProbeEntries)
       /\ Ascending(Keys(probe.all.map))
       /\ Stringify(probe.all.map)
          = Stringify(validatePluginDefinitions(Obj(SortEntries(ProbeEntries, FALSE)),
                                                probe.strict).map)

\* C16: a (name, value) pair the validator accepts with strict = true is
\* accepted with strict = false with the same reference; and ('a', '^4.5')
\* is accepted with strict = false and rejected with strict = true.
C16_StrictMonotone ==
    /\ (probe.pc = "one" /\ probe.strict /\ probe.one.ok)
       => validatePluginDefinition(ProbeName, ProbeValue, 0, FALSE) = probe.one
    /\ (probe.pc = "one" /\ ProbeName = A /\ ProbeValue = VCaret)
       => (probe.one.ok <=> ~probe.strict)

\* a URL and a full version were accepted in strict mode
C16_Witness ==
    /\ probe.pc = "one" /\ probe.strict /\ probe.one.ok
    /\ ProbeName = B /\ ProbeValue \in BareValues
    /\ probe.one.ref = NameAtValue(B, ProbeValue)

\* C17: for a valid name, a version with a range prefix is rejected in
\* strict mode with the range error (also when minor or patch is missing),
\* a version without prefix and without minor or patch is rejected in
\* strict mode with the vague-version-range error, both are accepted as
\* name@value when strict is false, and a major.minor.patch version with
\* optional prerelease and build is accepted as name@value in both modes.
C17_VersionStrictness ==
    (probe.pc = "one" /\ ValidName(ProbeName))
    => /\ ProbeValue \in RangedValues
          => IF probe.strict
             THEN ~probe.one.ok /\ probe.one.err = "VersionRange"
             ELSE probe.one.ok /\ probe.one.ref = NameAtValue(ProbeName, ProbeValue)
       /\ ProbeValue \in PartialValues
          => IF probe.strict
             THEN ~probe.one.ok /\ probe.one.err = "VagueVersionRange"
             ELSE probe.one.ok /\ probe.one.ref = NameAtValue(ProbeName, ProbeValue)
       /\ ProbeValue \in BareValues
          => probe.one.ok /\ probe.one.ref = NameAtValue(ProbeName, ProbeValue)

\* '^4.5' (a prefix, and no patch) was rejected in strict mode for its prefix
C17_Witness ==
    /\ probe.pc = "one" /\ probe.strict
    /\ ProbeName = A /\ ProbeValue = VCaret
    /\ probe.one.err = "VersionRange"

\* major.minor.patch in digits, with optional prerelease and build
IsExactVersion(v) ==
    LET parts == VersionParts(v)
    IN  /\ parts.matched /\ parts.range = <<>>
        /\ parts.major # <<>> /\ parts.minor # <<>> /\ parts.patch # <<>>
        /\ \A i \in 2..Len(parts.minor) : parts.minor[i] \in Digits
        /\ \A i \in 2..Len(parts.patch) : parts.patch[i] \in Digits

\* C18 as stated: with strict = true a version-shaped value that is
\* accepted is an exact version, and '1.2.x' and '1.x.x' are rejected.
C18_StrictIsExact ==
    (probe.pc = "one" /\ probe.strict)
    => /\ (probe.one.ok /\ VersionParts(ProbeValue).matched) => IsExactVersion(ProbeValue)
       /\ ProbeValue \in LooseValues => ~probe.one.ok

\* C19: for a valid name and in both modes, a value that is not a version
\* (and not '*') is accepted, and returned unchanged, iff it is a URL of
\* scheme https:, s3:, or github: with a fragment of '#' and 40 hex digits
\* of either case; github: without such a fragment is rejected with the
\* error that names a placeholder hash, another scheme as unsupported, and
\* what is not a URL as malformed.
C19_URLAcceptance ==
    (probe.pc = "one" /\ ValidName(ProbeName))
    => /\ ProbeValue \in HttpsValues \cup S3Values \cup GithubPinnedValues
          => probe.one.ok /\ probe.one.ref = ProbeValue
       /\ ProbeValue \in GithubUnpinnedValues
          => ~probe.one.ok /\ probe.one.err = "GithubWithoutCommit"
       /\ ProbeValue \in OtherSchemeValues
          => ~probe.one.ok /\ probe.one.err = "UnsupportedProtocol"
       /\ ProbeValue \in MalformedValues
          => ~probe.one.ok /\ probe.one.err = "NotVersionOrURL"
       /\ (probe.one.ok /\ ProbeValue \notin RangedValues \cup PartialValues
                                          \cup BareValues \cup LooseValues)
          => /\ ProbeValue \in HttpsValues \cup S3Values \cup GithubPinnedValues
             /\ probe.one.ref = ProbeValue

\* a github: reference with an upper-case commit hash was accepted unchanged
C19_Witness ==
    /\ probe.pc = "one" /\ probe.one.ok
    /\ ProbeValue = GithubRepo \o <<"#">> \o HEX40
    /\ probe.one.ref = ProbeValue

\* The positions of the entries the validator rejects.
InvalidAt(es, strict) ==
    {i \in 1..Len(es) : ~validatePluginDefinition(es[i][1], es[i][2], 0, strict).ok}
\* The position of the entry with the lexically smallest name among those at is.
SmallestAt(es, is) == CHOOSE i \in is : \A j \in is : j = i \/ StrLess(es[i][1], es[j][1])
\* The number of entries whose name is lexically smaller than the one at i.
RankOf(es, i) == Cardinality({j \in 1..Len(es) : StrLess(es[j][1], es[i][1])})

\* C20: validatePluginDefinitions of an object succeeds when no entry is
\* invalid; otherwise it raises the error of the invalid entry with the
\* lexically smallest name, and the entry index of the error is the number
\* of entries with a lexically smaller name, whatever the order of the input.
C20_FirstInvalidInOrder ==
    (probe.pc = "all" /\ probe.input.isObject)
    => IF InvalidAt(ProbeEntries, probe.strict) = {}
       THEN probe.all.ok
       ELSE LET i == SmallestAt(ProbeEntries, InvalidAt(ProbeEntries, probe.strict))
            IN  /\ ~probe.all.ok
                /\ probe.all.err = validatePluginDefinition(ProbeEntries[i][1], ProbeEntries[i][2],
                                                            0, probe.strict).err
                /\ probe.all.index = RankOf(ProbeEntries, i)

\* {b: 'http://h', 9: '1.2.3', a: '*'}: the error is the one of a, entry #1
C20_Witness ==
    /\ probe.pc = "all"
    /\ ProbeEntries = <<<<B, <<"h", "t", "t", "p", ":", "/", "/", "h">>>>, <<N9, V123>>, <<A, VStar>>>>
    /\ probe.all.err = "VagueVersion" /\ probe.all.index = 1

\* C21: for every (name, value) the validator accepts, validating the
\* reference it returned, as the value of the same name, is accepted and
\* returns the same reference.
C21_ValidateIdempotent ==
    probe.pc = "again" => probe.again.ok /\ probe.again.ref = probe.one.ref

(***************************************************************************)
(* Properties of the entry-point resolver                                  *)
(***************************************************************************)
\* The request was answered by the matcher of an exports map of patterns.
PatternsOf(pkg) == pkg.exports.e
AnswersPatterns == request.pc = "done" /\ request.pkg.exports.t = "object"
                   /\ ~isDefinition(request.pkg.exports)
\* The positions of the patterns of pkg that match the sub-path.
MatchingAt(pkg, subPath) ==
    {i \in 1..Len(PatternsOf(pkg)) : createPatternMatcher(PatternsOf(pkg)[i][1], subPath).matched}
\* The position of the longest pattern among those at is.
LongestAt(pkg, is) ==
    CHOOSE i \in is : \A j \in is : Len(PatternsOf(pkg)[j][1]) <= Len(PatternsOf(pkg)[i][1])
\* The result names pattern as its cause.
CausedBy(result, pattern) == result.defined /\ StartsWith(result.cause, ExportsCause(pattern))

BakXTs == <<"b", "a", "k", "/", "x", ".", "t", "s">>

\* C22: among the patterns of an exports map that match the requested
\* sub-path, the one with the longest pattern string decides the result;
\* with exports = {'./*': A, './bak/*.ts': B}, resolving 'bak/x.ts' for
\* either module system selects B and never A.
C22_LongestPatternDecides ==
    /\ (AnswersPatterns /\ MatchingAt(request.pkg, normalize(Str(request.name))) # {})
       => CausedBy(request.result,
                   PatternsOf(request.pkg)[LongestAt(request.pkg,
                       MatchingAt(request.pkg, normalize(Str(request.name))))][1])
    /\ (request.pc = "done" /\ request.pkg \in TiePkgs /\ request.name = BakXTs)
       => CausedBy(request.result, PBakTs)

\* The condition of a definition object that applies to a module system:
\* the first one present of import, default for 'module' and of node,
\* require, default for 'commonjs'; <<>> when none is present.
RECURSIVE FirstPresent(_, _)
FirstPresent(keys, definition) ==
    IF keys = <<>> THEN <<>>
    ELSE IF In(Head(keys), definition) THEN Head(keys)
    ELSE FirstPresent(Tail(keys), definition)
Applicable(definition, type) ==
    FirstPresent(IF type = "module" THEN <<KImport, KDefault>> ELSE <<KNode, KRequire, KDefault>>,
                 definition)
\* The definition is null, or its applicable condition is.
IsNullFor(definition, type) ==
    \/ definition = Null
    \/ /\ definition.t = "object"
       /\ Applicable(definition, type) # <<>>
       /\ Get(definition, Applicable(definition, type)) = Null

\* C23: when the definition of the matching pattern is null, or its
\* applicable condition is null, the result is defined and has location
\* null, for 'module' and for 'commonjs'; a sub-path that no pattern matches
\* resolves to undefined.
C23_NullDefinition ==
    AnswersPatterns
    => IF MatchingAt(request.pkg, normalize(Str(request.name))) = {}
       THEN ~request.result.defined
       ELSE IsNullFor(PatternsOf(request.pkg)[LongestAt(request.pkg,
                          MatchingAt(request.pkg, normalize(Str(request.name))))][2],
                      request.type)
            => request.result.defined /\ request.result.location = Null

\* The module system a manifest declares.
DeclaredType(pkg) == IF pkg.type = Str(TypeModule) THEN "module" ELSE "commonjs"

C25_BareExportsIsRoot ==
    (request.pc = "done" /\ request.pkg \in OverridePkgs /\ request.name \in RootNames)
    => /\ CausedBy(request.result, PDot)
       /\ request.pkg.exports.t = "string"
          => request.result = Import(ExportsCause(PDot),
                                     Str(pathResolve(PkgPth, request.pkg.exports.s)))

\* C26: the patterns are matched against the normalized sub-path: 'c-a'
\* matches the pattern './c-a', and '', '.' and './' each match the
\* pattern '.'.
C26_NormalizedRequest ==
    (request.pc = "done" /\ request.pkg = DeepPkg)
    => /\ request.name = <<"c", "-", "a">> => CausedBy(request.result, PCA)
       /\ request.name \in RootNames => CausedBy(request.result, PDot)

\* the part of the cause that names a condition
CondSuffix(key) ==
    IF key = KImport THEN <<".import">>
    ELSE IF key = KNode THEN <<".node">>
    ELSE IF key = KRequire THEN <<".require">>
    ELSE <<".default">>

\* C27: in a matched definition object, 'module' uses import if present,
\* else default; 'commonjs' uses node if present, else require, else
\* default; a condition that is present, also as null, is not skipped for a
\* later one, and no condition of the other module system is used.
C27_ConditionPriority ==
    (request.pc = "done" /\ request.pkg \in CondPkgs /\ request.name = PC)
    => IF Applicable(PatternsOf(request.pkg)[1][2], request.type) = <<>>
       THEN ~request.result.defined
       ELSE /\ request.result.defined
            /\ request.result.cause =
                  ExportsCause(PC)
                  \o CondSuffix(Applicable(PatternsOf(request.pkg)[1][2], request.type))
            /\ request.result.location =
                  IF Get(PatternsOf(request.pkg)[1][2],
                         Applicable(PatternsOf(request.pkg)[1][2], request.type)) = Null
                  THEN Null
                  ELSE Str(pathResolve(PkgPth,
                               CondTarget(Applicable(PatternsOf(request.pkg)[1][2],
                                                     request.type))))

\* { node: null, require: './r.js', default: './d.js' } asked for 'commonjs':
\* the node condition decides, location null
C27_Witness ==
    /\ request.pc = "done" /\ request.name = PC /\ request.type = "commonjs"
    /\ request.pkg = WithExports(Object(<<<<PC, Object(<<<<KNode, Null>>,
                                                          <<KRequire, Str(Js("r"))>>,
                                                          <<KDefault, Str(Js("d"))>>>>)>>>>))
    /\ request.result = Import(ExportsCause(PC) \o <<".node">>, Null)

\* C28: getMatcher creates the matcher of a manifest object once: every
\* later call with the same object returns the identical matcher, and
\* createMatcher is not run again for it.
C28_MatcherComputedOnce ==
    \A i, j \in 1..Len(cache.calls) :
        (i < j /\ cache.calls[i].pkg = cache.calls[j].pkg)
        => /\ cache.calls[j].returned = cache.calls[i].returned
           /\ ~cache.calls[j].created

\* the same manifest object passed a second time, with another install
\* path: the matcher of the first call is returned
C28_Witness ==
    /\ Len(cache.calls) >= 2
    /\ cache.calls[1].pkg = cache.calls[2].pkg
    /\ cache.calls[1].depPath # cache.calls[2].depPath
    /\ cache.calls[1].created
    /\ cache.calls[2].returned = cache.calls[1].returned

\* C29: once the manifest has been read, package() without force returns
\* the memoized promise and reads package.json no more; package({force:
\* true}) discards the memo and reads package.json again.
C29_PackageMemo ==
    \A h \in 1..Len(plugin.handles) :
        \A c \in EntrySet(plugin.handles[h].calls) :
            (c.op = "package" /\ c.memoStatus = "fulfilled")
            => IF c.force = "true"
               THEN c.reads = 1 /\ c.returned # c.memo
               ELSE c.reads = 0 /\ c.returned = c.memo

\* C30: once the data has been loaded, data() without force returns the
\* memoized promise and starts no manifest read and no load; only
\* data({force: true}) evicts the memo and loads again.
C30_DataSingleFlight ==
    \A h \in 1..Len(plugin.handles) :
        \A c \in EntrySet(plugin.handles[h].calls) :
            (c.op = "data" /\ c.memoStatus = "fulfilled")
            => IF c.force = "true"
               THEN c.promises > 0 /\ c.returned # c.memo
               ELSE c.promises = 0 /\ c.reads = 0 /\ c.returned = c.memo

(***************************************************************************)
(* Further properties of the installation                                  *)
(***************************************************************************)
\* C34: when now - timestamp is exactly maxAge at the freshness test, the
\* fast path is not taken: the call goes on to validate the desired spec.
C34_StrictFreshness ==
    \A p \in Callers :
        (/\ PastReadState(call[p])
         /\ call[p].state.hasTime /\ call[p].state.hasMap
         /\ CheckedAt(call[p]) - call[p].state.timeMs = call[p].maxAge)
        => ~(call[p].pc = "done" /\ ~call[p].validated)

C33_LastWriterWins ==
    [][\A p \in Procs :
          /\ call'[p].pc \in {"remove", "install", "writeFile"} => Spawns(call'[p]) # <<>>
          /\ (call[p].pc = "writeFile" /\ call'[p].pc = "done" /\ call'[p].outcome.err = "")
             => file' = StateFile(call[p].hash, call[p].pluginsMap, now)]_vars

\* both invocations found no state file, both spawned npm install, both
\* wrote the file; it holds the map of the second only
C33_Witness ==
    /\ \A p \in Procs : /\ call[p].fileAtStart = NoFile
                         /\ call[p].pc = "done" /\ call[p].outcome.err = ""
                         /\ Spawns(call[p]) # <<>>
    /\ call[1].pluginsMap # call[2].pluginsMap
    /\ file.kind = "json" /\ file.pluginsMap = call[2].pluginsMap
    /\ KeySet(file.pluginsMap) # KeySet(installed)

TargetOf(definition, type) ==
    IF definition.t # "object" THEN definition
    ELSE IF Applicable(definition, type) = <<>> THEN Undefined
    ELSE Get(definition, Applicable(definition, type))
\* target with its '*' replaced by capture
Substituted(target, capture) ==
    IF StarOf(target) = -1 THEN target
    ELSE Substring(target, 0, StarOf(target)) \o capture
         \o Substring(target, StarOf(target) + 1, Len(target))

\* C35: when the pattern that answers contains '*' and its target is a
\* path, the location is the target with its '*' replaced by the segment
\* captured from the request, resolved against the package root ('./bak/*.ts'
\* with target './cjs/*.js' resolves './bak/x.ts' to /root/cjs/x.js); a
\* target without '*' is returned as it is.
C35_StarSubstituted ==
    AnswersPatterns
    => \A i \in 1..Len(PatternsOf(request.pkg)) :
          (/\ CausedBy(request.result, PatternsOf(request.pkg)[i][1])
           /\ StarOf(PatternsOf(request.pkg)[i][1]) # -1
           /\ createPatternMatcher(PatternsOf(request.pkg)[i][1], request.name).matched
           /\ TargetOf(PatternsOf(request.pkg)[i][2], request.type).t = "string")
          => request.result.location =
                Str(pathResolve(PkgPth,
                    Substituted(TargetOf(PatternsOf(request.pkg)[i][2], request.type).s,
                                createPatternMatcher(PatternsOf(request.pkg)[i][1],
                                                     request.name).capture)))

\* C36: when the matcher of a pattern with '*' in the middle returns a
\* capture for a request, the request is the prefix of the pattern, then
\* the capture, then the suffix of the pattern.
C36_CaptureBetweenEnds ==
    (/\ request.pc = "pattern"
     /\ request.capture.matched
     /\ StarOf(request.pattern) \notin {-1, Len(request.pattern) - 1})
    => request.name = Substring(request.pattern, 0, StarOf(request.pattern))
                      \o request.capture.capture
                      \o Substring(request.pattern, StarOf(request.pattern) + 1,
                                   Len(request.pattern))

\* C37: normalize(normalize(x)) = normalize(x) for every x, and '', '.'
\* and './' all normalize to '.'.
C37_NormalizeIdempotent ==
    /\ request.hasAgain => request.again = request.normalized
    /\ (request.hasNormalized /\ request.name \in RootNames) => request.normalized = <<".">>

\* C38: the matcher returned by getMatcher(depPath, pkg) resolves every
\* location that is not null below the depPath of that call, also when the
\* manifest object was passed before with another depPath.
C38_ResolvesBelowDepPath ==
    \A i \in 1..Len(cache.calls) :
        (cache.calls[i].called /\ cache.calls[i].result.defined
         /\ cache.calls[i].result.location.t = "string")
        => StartsWith(cache.calls[i].result.location.s, cache.calls[i].depPath \o <<"/">>)

\* C31: when the package.json of a Plugin is absent, package() is fulfilled
\* with an empty manifest (value 0 here: no main, no exports), and data()
\* goes on to load with it.
C31_AbsentManifestTolerated ==
    \A h \in 1..Len(plugin.handles) :
        \A q \in EntrySet(plugin.handles[h].promises) :
            /\ (q.kind = "pkg" /\ q.enoent) => q.status = "fulfilled" /\ q.value = 0
            /\ (q.kind = "data" /\ q.status # "pending"
                /\ plugin.handles[h].promises[q.src].enoent) => q.ran

\* C32: loadPlugins returns one Plugin per name, in a state where nothing
\* of a package has been read or loaded; a Plugin has a manifest read or a
\* module load only once package() or data() has been called on it.
C32_LoadedOnDemand ==
    /\ plugin.pc = "ready" => plugin.handles = <<>>
    /\ plugin.pc = "prepared" =>
          /\ Len(plugin.handles) = Len(plugin.names)
          /\ \A h \in 1..Len(plugin.handles) :
                /\ plugin.handles[h].name = plugin.names[h]
                /\ plugin.handles[h].calls = <<>>
                   => /\ plugin.handles[h].reads = 0 /\ plugin.handles[h].loads = 0
                      /\ plugin.handles[h].promises = <<>>
                      /\ plugin.handles[h]._pkg = 0 /\ plugin.handles[h]._data = 0

\* two Plugins were returned; the manifest of the second was read and its
\* module loaded after data() was called on it, the first is untouched
C32_Witness ==
    /\ plugin.pc = "prepared"
    /\ Len(plugin.handles) = 2
    /\ plugin.handles[1].calls = <<>> /\ plugin.handles[1].reads = 0
    /\ Len(plugin.handles[2].calls) = 1 /\ plugin.handles[2].calls[1].op = "data"
    /\ plugin.handles[2].reads = 1 /\ plugin.handles[2].loads = 1

====
